---- MODULE Spec2Model ----
(***************************************************************************)
(* Issue Queue Bot (scripts/promote_next.py): the decision cycle           *)
(* promote_next_issue, the workflow state machine, the readiness check,    *)
(* approve-then-merge, and the State Store with its reconciliation, over   *)
(* a tracker that the agent and humans change between the bot's steps.     *)
(*                                                                         *)
(* A tracker call that fails is a nondeterministic input of the step that  *)
(* makes it: every operator that calls the tracker takes the set `fl` of   *)
(* its call sites that fail, and returns, beside its value, the set        *)
(* `calls` of the call sites it reached.                                   *)
(***************************************************************************)
EXTENDS Integers, Sequences, FiniteSets, TLC

\* Bounds of the model.
NumFiles == 2       \* issues/001-*.md .. issues/00N-*.md
MaxIssues == 2      \* bot issues the tracker holds
MaxPRs == 1         \* agent pull requests the tracker holds
MaxReviews == 2     \* reviews one pull request holds
MaxLinked == 2      \* requests linked to the issue of a snapshot (SpecFn)
MaxRuns == 2        \* reconciliation passes in succession (SpecSync)
MaxChecks == 1      \* check runs of a request's head commit (SpecReady)
MaxListed == 2      \* pull requests the tracker lists (SpecMatch)
MaxQueue == 3       \* files of a directory (SpecQueue)
MaxWait == 2        \* max_wait_minutes of wait_for_pr_readiness (SpecWait)

None == 0           \* Python's None for numbers (issue, file and PR numbers start at 1)

VARIABLES
    issues_dir,          \* ISSUES_DIR: whether it exists, and its *.md files with the
                         \* width of each one's numeric prefix
    numbered,            \* the first line of each file (the issue title) starts with the file's number
    issues,              \* tracker: bot-labelled issues, issue number = index (creation order)
    prs,                 \* tracker: pull requests, PR number = index (creation order)
    processed_files,     \* state file: "processed_files"
    last_completed_file, \* state file: "last_completed_file"
    resume_context,      \* state file: "resume_context": <<>> absent, <<n>> active issue n (None: no open issue)
    pc,                  \* main: "idle" (between cycles), "resumed" (resume_bot_state done, first cycle
                         \* next), "approved" (promote_next_issue in the settle delay after the approval)
    cur,                 \* last_issue of the cycle in progress
    curPR,               \* related_pr of the cycle in progress
    wf,                  \* workflow_status computed by the last cycle ("none": no last issue)
    ret,                 \* what the last cycle returned: "true", "false", "raised"; "pending" in a cycle
    muts,                \* tracker mutations the last cycle sent and the tracker accepted
    apiFailed,           \* some tracker call of the last cycle failed
    recheck,             \* verdict of the last cycle's re-check after the settle delay:
                         \* "ready", "not_ready", "error" (re-fetch failed); "none" when not reached
    synced,              \* the last cycle's sync_processed_files_with_github: "ok" (it read the
                         \* tracker), "failed" (it returned the local state); "none" when not reached
    obs                  \* last evaluation of a function on the tracker snapshot (SpecFn)

vars == <<numbered, issues_dir, issues, prs, processed_files, last_completed_file, resume_context,
          pc, cur, curPR, wf, ret, muts, apiFailed, recheck, synced, obs>>

tracker == <<issues, prs>>
store == <<processed_files, last_completed_file, resume_context>>

Files == 1..NumFiles

Max(S) == CHOOSE x \in S : \A y \in S : y <= x

----------------------------------------------------------------------------
(* Local queue *)

\* f"{n}" and f"{n:0wd}": the digits of n, zero-padded to width w
RECURSIVE Decimal(_)
Decimal(n) ==
    LET digit == <<"0", "1", "2", "3", "4", "5", "6", "7", "8", "9">>[(n % 10) + 1]
    IN  IF n < 10 THEN <<digit>> ELSE Append(Decimal(n \div 10), digit)
Padded(n, w) ==
    IF Len(Decimal(n)) >= w THEN Decimal(n)
    ELSE [k \in 1..(w - Len(Decimal(n))) |-> "0"] \o Decimal(n)
Padded3(n) == Padded(n, 3)

\* the order of characters: "-" comes before the digits
Ord(c) == CHOOSE k \in 1..11 : <<"-", "0", "1", "2", "3", "4", "5", "6", "7", "8", "9">>[k] = c

\* a < b as Python compares the paths: character by character
LexLess(a, b) ==
    \E k \in 1..Len(b) :
        /\ \A j \in 1..(k - 1) : j <= Len(a) /\ a[j] = b[j]
        /\ k > Len(a) \/ Ord(a[k]) < Ord(b[k])

\* A file of the queue is named <prefix>-<title>.md and is known here by the number
\* its prefix reads. The names up to the dash, which is where two names of a
\* directory differ, for a prefix written with w digits:
NameTable == [f \in 0..10, w \in 1..3 |-> Append(Padded(f, w), "-")]

\* the names in the order of sorted()
AllNames == {NameTable[x] : x \in DOMAIN NameTable}
LexTable == [a \in AllNames, b \in AllNames |-> LexLess(a, b)]

\* sorted(ISSUES_DIR.glob("*.md")) of the files whose prefixes have the widths w
RECURSIVE SortedListing(_, _)
SortedListing(w, here) ==
    IF here = {} THEN <<>>
    ELSE LET first == CHOOSE f \in here : \A g \in here \ {f} :
                          LexTable[NameTable[f, w[f]], NameTable[g, w[g]]]
         IN  <<first>> \o SortedListing(w, here \ {first})

\* the directories: absent, or holding files with prefixes of the widths w; listing
\* is what sorted(ISSUES_DIR.glob("*.md")) gives as long as the directory stays as it is
NoDir == [exists |-> FALSE, width |-> <<>>, listing |-> <<>>]
Dir(w) == [exists |-> TRUE, width |-> w, listing |-> SortedListing(w, DOMAIN w)]

md_files == issues_dir.listing

\* list(ISSUES_DIR.glob(f"{file_number:03d}-*.md")): the file named with that
\* three-digit prefix, if any; only the file of that number can have the name
matching_files(file_number) ==
    IF file_number \in DOMAIN issues_dir.width
       /\ NameTable[file_number, issues_dir.width[file_number]] = NameTable[file_number, 3]
    THEN <<file_number>>
    ELSE <<>>

\* issues/001-*.md .. issues/00N-*.md
PaddedDir == Dir([f \in Files |-> 3])

\* the title create_issue gives the issue of file f: the file's first line
TitleOf(f) == [num |-> IF numbered THEN f ELSE None]

\* re.match(r"^(\d+)[-\s]", title) / r"^(\d{3})": the leading number, None without one
extract_issue_number_from_title(title) == title.num

----------------------------------------------------------------------------
(* Readiness Evaluator *)

IsBotLogin(who) == who \in {"queue-bot", "github-actions[bot]"}

\* get_pr_reviews: [] when the call fails
get_pr_reviews(pr, failed) == IF failed THEN <<>> ELSE pr.reviews

\* submitted_at of the k-th review of the list; the tracker lists reviews in
\* submission order, and a review without the field was submitted at a time of its own
SubmittedAt(reviews, k) == IF "at" \in DOMAIN reviews[k] THEN reviews[k].at ELSE k

\* review_states: for each reviewer the state of the review the loop keeps, which
\* replaces the kept one only by a review with a greater submitted_at
LatestReviewStates(reviews) ==
    LET who == {reviews[k].user : k \in 1..Len(reviews)}
        of(w) == {k \in 1..Len(reviews) : reviews[k].user = w}
        kept(w) == CHOOSE k \in of(w) : \A j \in of(w) :
                       \/ SubmittedAt(reviews, j) < SubmittedAt(reviews, k)
                       \/ SubmittedAt(reviews, j) = SubmittedAt(reviews, k) /\ k <= j
    IN  [w \in who |-> reviews[kept(w)].state]

CountState(states, s) == Cardinality({w \in DOMAIN states : states[w] = s})

\* check runs: status in_progress, or conclusion failure / cancelled / timed_out
RunBlocks(run) == run \in {"in_progress", "failure"}

\* PreReviewReason without the draft check
PreReviewReason_no_draft(pr) ==
    IF pr.blocked THEN "blocked"
    ELSE IF pr.mergeable \in {"no", "unknown"} THEN "conflicts"
    ELSE IF pr.wip THEN "wip"
    ELSE "none"

\* lines 904-918: the checks made before the reviews are fetched. The tracker's
\* answer always carries the mergeable field: true ("yes"), false ("no"), or null
\* ("unknown") while it has not computed it; not null is true, as not false is
PreReviewReason(pr) ==
    IF pr.blocked THEN "blocked"
    ELSE IF pr.mergeable \in {"no", "unknown"} THEN "conflicts"
    ELSE IF pr.draft THEN "draft"
    ELSE IF pr.wip THEN "wip"
    ELSE "none"

\* NonAgentVerdict that asks for no approval
NonAgentVerdict_no_approval_needed(approved_count) == [ready |-> TRUE, reason |-> "approved"]

\* lines 982-986: a request of another author needs an approval
NonAgentVerdict(approved_count) ==
    IF approved_count = 0 THEN [ready |-> FALSE, reason |-> "needs approval"]
    ELSE [ready |-> TRUE, reason |-> "approved"]

is_pr_ready_to_merge(pr, fl) ==
    LET review_states == LatestReviewStates(get_pr_reviews(pr, "reviews" \in fl))
        approved_count == CountState(review_states, "APPROVED")
        changes_requested_count == CountState(review_states, "CHANGES_REQUESTED")
        has_pending_reviews == pr.requested
        status_known == "status" \notin fl
    IN  IF PreReviewReason(pr) # "none"
        THEN [ready |-> FALSE, reason |-> PreReviewReason(pr), calls |-> {}]
        ELSE IF changes_requested_count > 0
             THEN [ready |-> FALSE, reason |-> "changes", calls |-> {"reviews"}]
        ELSE IF pr.author = "copilot-swe-agent"
             THEN IF approved_count = 0 /\ has_pending_reviews
                  THEN [ready |-> FALSE, reason |-> "pending reviews", calls |-> {"reviews"}]
                  ELSE IF status_known /\ pr.status \in {"failure", "error"}
                  THEN [ready |-> FALSE, reason |-> "failing checks", calls |-> {"reviews", "status"}]
                  ELSE IF status_known /\ pr.status = "pending"
                  THEN [ready |-> FALSE, reason |-> "pending checks", calls |-> {"reviews", "status"}]
                  ELSE IF status_known /\ \E k \in 1..Len(pr.runs) : RunBlocks(pr.runs[k])
                  THEN [ready |-> FALSE, reason |-> "check run", calls |-> {"reviews", "status"}]
                  ELSE [ready |-> TRUE, reason |-> "agent PR clear", calls |-> {"reviews", "status"}]
        ELSE [ready |-> NonAgentVerdict(approved_count).ready,
              reason |-> NonAgentVerdict(approved_count).reason, calls |-> {"reviews"}]

----------------------------------------------------------------------------
(* Resolution Matcher *)

\* The requests the strategies accept for issue i, most recent first; [] when the
\* listing fails. pr.issue is the issue whose number or time window the request's
\* title, body and creation time match; only the agent's requests are accepted.
find_related_prs_for_issue(i, failed) ==
    IF failed THEN <<>>
    ELSE LET hit == {p \in 1..Len(prs) : prs[p].issue = i /\ prs[p].author = "copilot-swe-agent"}
             RECURSIVE desc(_)
             desc(S) == IF S = {} THEN <<>> ELSE <<Max(S)>> \o desc(S \ {Max(S)})
         IN  desc(hit)

----------------------------------------------------------------------------
(* Completion detection *)

\* get_closing_pr_for_issue: the request whose merge commit closed the issue
\* ("merged" / "unmerged" by its merged_at), "none" without one or when a call fails
get_closing_pr_for_issue(i, failed) == IF failed THEN "none" ELSE issues[i].closer

is_issue_done(i, fl) ==
    IF issues[i].state # "closed" THEN [val |-> FALSE, calls |-> {}]
    ELSE LET closing_pr == get_closing_pr_for_issue(i, "closing" \in fl)
         IN  [val |-> IF closing_pr = "none" THEN TRUE ELSE closing_pr = "merged",
              calls |-> {"closing"}]

----------------------------------------------------------------------------
(* Workflow State Machine *)

\* NoLinkedStatus without its second branch
NoLinkedStatus_started_only(issue) ==
    IF issue.started /\ ~issue.finished THEN "copilot_working" ELSE "waiting_for_copilot"

\* NoLinkedStatus without its first branch
NoLinkedStatus_acknowledged_only(issue) ==
    IF issue.eyes THEN "copilot_working" ELSE "waiting_for_copilot"

\* lines 1082-1089: the issue is assigned and no request is linked to it
NoLinkedStatus(issue) ==
    IF issue.started /\ ~issue.finished THEN "copilot_working"
    ELSE IF issue.eyes THEN "copilot_working"
    ELSE "waiting_for_copilot"

check_copilot_workflow_status(i, fl) ==
    LET issue == issues[i]
        linked_prs == find_related_prs_for_issue(i, "pulls" \in fl)
        latest_pr == linked_prs[1]
        rdy == is_pr_ready_to_merge(prs[latest_pr], fl)
    IN  IF issue.state = "closed" THEN [val |-> "completed", calls |-> {}]
        ELSE IF ~issue.assigned THEN [val |-> "waiting_for_copilot", calls |-> {}]
        ELSE IF "timeline" \in fl THEN [val |-> "copilot_working", calls |-> {"timeline"}]
        ELSE IF linked_prs # <<>>
             THEN IF prs[latest_pr].state = "closed"
                  THEN [val |-> "completed", calls |-> {"timeline", "pulls"}]
                  ELSE IF "pull" \in fl
                  THEN [val |-> IF prs[latest_pr].draft THEN "copilot_working"
                                ELSE "pr_ready_for_review",
                        calls |-> {"timeline", "pulls", "pull"}]
                  ELSE [val |-> IF rdy.ready THEN "pr_ready_for_review" ELSE "copilot_working",
                        calls |-> {"timeline", "pulls", "pull"} \cup rdy.calls]
        ELSE [val |-> NoLinkedStatus(issue), calls |-> {"timeline", "pulls"}]

----------------------------------------------------------------------------
(* State Store. A store value is [pf |-> processed_files, lcf |-> last_completed_file]. *)

Entry(filename, issue_number, status) ==
    [filename |-> filename, issue_number |-> issue_number, status |-> status]

\* the first of the indexes `at` (the entry a loop with break stops at), None without one
FirstIndex(at) == IF at = {} THEN None ELSE CHOOSE k \in at : \A j \in at : k <= j

\* mark_file_as_processing that keeps the entries the file already has
mark_file_as_processing_appends(S, filename, issue_number) ==
    [S EXCEPT !.pf = Append(S.pf, Entry(filename, issue_number, "processing"))]

mark_file_as_processing(S, filename, issue_number) ==
    LET keep(e) == e.filename # filename
    IN  [S EXCEPT !.pf = Append(SelectSeq(S.pf, keep), Entry(filename, issue_number, "processing"))]

mark_file_as_completed(S, filename) ==
    LET k == FirstIndex({j \in 1..Len(S.pf) : S.pf[j].filename = filename})
    IN  [pf |-> IF k = None THEN S.pf ELSE [S.pf EXCEPT ![k].status = "completed"],
         lcf |-> filename]

\* ExistingIndex that finds no entry
ExistingIndex_forgets(pf, filename) == None

\* existing_files[filename]: a dict comprehension keeps the last entry of a filename
ExistingIndex(pf, filename) ==
    LET at == {k \in 1..Len(pf) : pf[k].filename = filename}
    IN  IF at = {} THEN None ELSE Max(at)

\* one pass of the loop of sync_processed_files_with_github, for issue k whose title
\* matches `files` and whose state reads `status`: the entries after it, and what it
\* adds to updated_count + added_count
SyncEntry(pf, k, files, status, at) ==
    IF files = <<>> THEN [pf |-> pf, count |-> 0]
    ELSE IF at = None
    THEN [pf |-> Append(pf, Entry(files[1], k, status)), count |-> 1]
    ELSE IF pf[at].status # status \/ pf[at].issue_number # k
    THEN [pf |-> [pf EXCEPT ![at].status = status, ![at].issue_number = k], count |-> 1]
    ELSE [pf |-> pf, count |-> 0]

\* the pass for issue k; cf: the issues whose closing-request lookup fails
SyncIssue(pf, k, cf, files) ==
    SyncEntry(pf, k, files,
              IF is_issue_done(k, IF k \in cf THEN {"closing"} ELSE {}).val
              THEN "completed" ELSE "processing",
              IF files = <<>> THEN None ELSE ExistingIndex(pf, files[1]))

\* the files the title of issue k matches
FilesOfIssue(k, file_number) == IF file_number = None THEN <<>> ELSE matching_files(file_number)

\* the loop of sync_processed_files_with_github over issues k.. (oldest first)
RECURSIVE SyncIssues(_, _, _)
SyncIssues(pf, k, cf) ==
    IF k > Len(issues) THEN pf
    ELSE SyncIssues(SyncIssue(pf, k, cf,
                        FilesOfIssue(k, extract_issue_number_from_title(issues[k].title))).pf,
                    k + 1, cf)

\* updated_count + added_count of the same loop
RECURSIVE SyncCounts(_, _, _)
SyncCounts(pf, k, cf) ==
    IF k > Len(issues) THEN 0
    ELSE LET e == SyncIssue(pf, k, cf,
                      FilesOfIssue(k, extract_issue_number_from_title(issues[k].title)))
         IN  e.count + SyncCounts(e.pf, k + 1, cf)

\* the end of sync_processed_files_with_github: last_completed_file of the entries pf
Synced(S, pf, completed_files) ==
    [pf |-> pf, lcf |-> IF completed_files = {} THEN S.lcf ELSE Max(completed_files)]

CompletedFiles(pf) == {pf[k].filename : k \in {j \in 1..Len(pf) : pf[j].status = "completed"}}

SyncedOn(S, pf) == Synced(S, pf, CompletedFiles(pf))

sync_processed_files_with_github(S, failed, cf) ==
    IF failed THEN S ELSE SyncedOn(S, SyncIssues(S.pf, 1, cf))

\* get_next_unprocessed_file, lines 474-501, on the state its sync returned: None
\* while an entry is processing, else the first file that no completed entry names
NextUnprocessed(S) ==
    LET processed_filenames == {S.pf[k].filename : k \in {j \in 1..Len(S.pf) : S.pf[j].status = "completed"}}
        currently_processing == \E k \in 1..Len(S.pf) : S.pf[k].status = "processing"
        open_files == {k \in 1..Len(md_files) : md_files[k] \notin processed_filenames}
    IN  IF currently_processing \/ open_files = {} THEN None
        ELSE md_files[CHOOSE k \in open_files : \A j \in open_files : k <= j]

\* get_next_unprocessed_file: None at once, without a sync, when the directory is
\* absent or holds no file; else the sync, and the choice made on the state it returns
Selected(S) == [file |-> NextUnprocessed(S), S |-> S, synced |-> TRUE]

get_next_unprocessed_file(S0, failed, cf) ==
    IF ~issues_dir.exists \/ md_files = <<>>
    THEN [file |-> None, S |-> S0, synced |-> FALSE]
    ELSE Selected(sync_processed_files_with_github(S0, failed, cf))

\* get_next_file: the first file of the listing when no number is given, else the
\* first one of the listing whose number is greater
get_next_file(after_issue_number) ==
    LET later == {k \in 1..Len(md_files) : md_files[k] > after_issue_number}
    IN  IF ~issues_dir.exists \/ md_files = <<>> THEN None
        ELSE IF after_issue_number = None THEN md_files[1]
        ELSE IF later = {} THEN None
        ELSE md_files[CHOOSE k \in later : \A j \in later : k <= j]

\* promote_next_issue, lines 1655-1674 and 1688-1705: mark the file of the issue's
\* title number, then the first processing entry that carries the issue's number
MarkIssueCompleted(S, i) ==
    LET file_number == extract_issue_number_from_title(issues[i].title)
        files == IF file_number = None THEN <<>> ELSE matching_files(file_number)
        S1 == IF files = <<>> THEN S ELSE mark_file_as_completed(S, files[1])
        k == FirstIndex({j \in 1..Len(S1.pf) :
                            S1.pf[j].issue_number = i /\ S1.pf[j].status = "processing"})
    IN  IF k = None THEN S1 ELSE mark_file_as_completed(S1, S1.pf[k].filename)

----------------------------------------------------------------------------
(* The state as a record, so that a step is a function from record to record. *)

Now ==
    [issues |-> issues, prs |-> prs, pf |-> processed_files, lcf |-> last_completed_file,
     rc |-> resume_context, pc |-> pc, cur |-> cur, curPR |-> curPR, wf |-> wf,
     ret |-> ret, muts |-> muts, apiFailed |-> apiFailed, recheck |-> recheck,
     synced |-> synced]

Commit(n) ==
    /\ issues' = n.issues
    /\ prs' = n.prs
    /\ processed_files' = n.pf
    /\ last_completed_file' = n.lcf
    /\ resume_context' = n.rc
    /\ pc' = n.pc
    /\ cur' = n.cur
    /\ curPR' = n.curPR
    /\ wf' = n.wf
    /\ ret' = n.ret
    /\ muts' = n.muts
    /\ apiFailed' = n.apiFailed
    /\ recheck' = n.recheck
    /\ synced' = n.synced
    /\ UNCHANGED <<numbered, issues_dir, obs>>

\* wf, ret, muts, apiFailed, recheck and synced describe the cycle that has just ended: they are
\* dropped as soon as anything else happens
Forget ==
    IF pc = "approved" THEN Now
    ELSE [Now EXCEPT !.wf = "none", !.ret = "none", !.muts = {}, !.apiFailed = FALSE,
                     !.recheck = "none", !.synced = "none"]

StoreOf(n) == [pf |-> n.pf, lcf |-> n.lcf]

\* the cycle ends: promote_next_issue returns r
Return(n, r) == [n EXCEPT !.pc = "idle", !.cur = None, !.curPR = None, !.ret = r]

----------------------------------------------------------------------------
(* Tracker: what it does with the bot's mutations *)

NewIssue(f) ==
    [file |-> f, title |-> TitleOf(f), state |-> "open", closer |-> "none",
     assigned |-> TRUE, eyes |-> FALSE, started |-> FALSE, finished |-> FALSE]

NewPR(i, draft) ==
    [issue |-> i, state |-> "open", merged |-> FALSE, draft |-> draft, mergeable |-> "yes",
     blocked |-> FALSE, wip |-> FALSE, author |-> "copilot-swe-agent", reviews |-> <<>>,
     requested |-> FALSE, status |-> "success", runs |-> <<>>]

Review(who, verdict) == [user |-> who, state |-> verdict]

\* PUT .../merge is accepted for an open request that is no draft
TrackerAcceptsMerge(p) == prs[p].state = "open" /\ ~prs[p].draft

\* the merge commit closes the issue its message resolves (closes: it lands on the
\* default branch); the first closing commit is the one the timeline scan finds
MergedInto(iss, i, closes) ==
    IF closes /\ iss[i].state = "open"
    THEN [iss EXCEPT ![i].state = "closed",
                     ![i].closer = IF iss[i].closer = "none" THEN "merged" ELSE iss[i].closer]
    ELSE iss

----------------------------------------------------------------------------
(* promote_next_issue *)

get_last_bot_issue == IF issues = <<>> THEN None ELSE Len(issues)

\* lines 1598-1627: the issue the cycle looks at
LastIssue(fl) ==
    LET active == resume_context # <<>> /\ resume_context[1] # None
    IN  IF active
        THEN IF "issue" \notin fl
             THEN [raised |-> FALSE, last |-> resume_context[1], rc |-> <<>>, calls |-> {"issue"}]
             ELSE [raised |-> "issues" \in fl, last |-> get_last_bot_issue, rc |-> <<>>,
                   calls |-> {"issue", "issues"}]
        ELSE [raised |-> "issues" \in fl, last |-> get_last_bot_issue, rc |-> resume_context,
              calls |-> {"issues"}]

\* auto_approve_and_merge_pr up to the settle delay (lines 1099-1161)
ApprovePhase(i, fl) ==
    LET related_prs == find_related_prs_for_issue(i, "pulls" \in fl)
        open_at == {k \in 1..Len(related_prs) : prs[related_prs[k]].state = "open"}
        related_pr == related_prs[CHOOSE k \in open_at : \A j \in open_at : k <= j]
        rdy == is_pr_ready_to_merge(prs[related_pr], fl)
        existing_reviews == get_pr_reviews(prs[related_pr], "existing_reviews" \in fl)
        b == FirstIndex({j \in 1..Len(existing_reviews) : IsBotLogin(existing_reviews[j].user)})
        approved_already == b # None /\ existing_reviews[b].state = "APPROVED"
    IN  IF open_at = {}
        THEN [ok |-> FALSE, pr |-> None, post |-> FALSE, calls |-> {"pulls"}]
        ELSE IF "pull" \in fl
        THEN [ok |-> FALSE, pr |-> related_pr, post |-> FALSE, calls |-> {"pulls", "pull"}]
        ELSE IF ~rdy.ready
        THEN [ok |-> FALSE, pr |-> related_pr, post |-> FALSE,
              calls |-> {"pulls", "pull"} \cup rdy.calls]
        ELSE IF approved_already
        THEN [ok |-> TRUE, pr |-> related_pr, post |-> FALSE,
              calls |-> {"pulls", "pull", "existing_reviews"} \cup rdy.calls]
        ELSE [ok |-> "approve" \notin fl, pr |-> related_pr, post |-> "approve" \notin fl,
              calls |-> {"pulls", "pull", "existing_reviews", "approve"} \cup rdy.calls]

\* lines 1719-1737: get_next_unprocessed_file, create_issue, mark_file_as_processing
\* lines 1721-1737 on what get_next_unprocessed_file returned
DispatchFile(n, fl, cf, g) ==
    IF g.file = None \/ "create" \in fl
    THEN Return([n EXCEPT !.pf = g.S.pf, !.lcf = g.S.lcf,
                          !.apiFailed = n.apiFailed \/ (g.synced /\ ("sync" \in fl \/ cf # {}))
                                        \/ (g.file # None /\ "create" \in fl),
                          !.synced = IF ~g.synced THEN n.synced
                                     ELSE IF "sync" \in fl THEN "failed" ELSE "ok"], "false")
    ELSE Return([n EXCEPT !.issues = Append(issues, NewIssue(g.file)),
                          !.pf = mark_file_as_processing(g.S, g.file, Len(issues) + 1).pf,
                          !.lcf = g.S.lcf,
                          !.apiFailed = n.apiFailed \/ "sync" \in fl \/ cf # {},
                          !.synced = IF "sync" \in fl THEN "failed" ELSE "ok",
                          !.muts = {"create"}], "true")

Dispatch(n, fl, cf) ==
    DispatchFile(n, fl, cf, get_next_unprocessed_file(StoreOf(n), "sync" \in fl, cf))

\* the closing-request lookups the sync makes: one for each closed issue it matches to a file
ClosingLookups ==
    {k \in 1..Len(issues) : issues[k].state = "closed"
        /\ matching_files(extract_issue_number_from_title(issues[k].title)) # <<>>}

CycleStart(n0) ==
    [n0 EXCEPT !.wf = "none", !.ret = "pending", !.muts = {}, !.apiFailed = FALSE,
               !.recheck = "none", !.synced = "none"]

\* NextAction that waits on completed
NextAction_completed_waits(workflow_status) ==
    CASE workflow_status = "pr_ready_for_review" -> "approve_and_merge"
      [] OTHER -> "wait"

\* NextAction that takes copilot_working for completed
NextAction_working_dispatches(workflow_status) ==
    CASE workflow_status = "waiting_for_copilot" -> "wait"
      [] workflow_status = "copilot_working" -> "dispatch"
      [] workflow_status = "pr_ready_for_review" -> "approve_and_merge"
      [] workflow_status = "completed" -> "dispatch"
      [] OTHER -> "wait"

\* lines 1636-1717: what the cycle does in each workflow state
NextAction(workflow_status) ==
    CASE workflow_status = "waiting_for_copilot" -> "wait"
      [] workflow_status = "copilot_working" -> "wait"
      [] workflow_status = "pr_ready_for_review" -> "approve_and_merge"
      [] workflow_status = "completed" -> "dispatch"
      [] OTHER -> "wait"

Cycle ==
    /\ pc \in {"idle", "resumed"}
    /\ \E f0 \in SUBSET {"issue", "issues"} :
        LET sel == LastIssue(f0)
            n1 == [CycleStart(Now) EXCEPT !.rc = sel.rc, !.apiFailed = (f0 \cap sel.calls) # {}]
        IN  f0 \subseteq sel.calls /\
            IF sel.raised THEN Commit(Return(n1, "raised"))
            ELSE IF sel.last = None
            THEN \E f3 \in SUBSET {"sync", "create"}, cf \in SUBSET ClosingLookups :
                    LET d == Dispatch(n1, f3, cf)
                    IN  Len(d.issues) <= MaxIssues /\ Commit(d)
            ELSE \E f1 \in SUBSET {"timeline", "pulls", "pull", "reviews", "status"} :
                    LET w == check_copilot_workflow_status(sel.last, f1)
                        n2 == [n1 EXCEPT !.wf = w.val,
                                         !.apiFailed = n1.apiFailed \/ (f1 \cap w.calls) # {}]
                    IN  f1 \subseteq w.calls /\
                        IF NextAction(w.val) = "wait"
                        THEN Commit(Return(n2, "false"))
                        ELSE IF NextAction(w.val) = "approve_and_merge"
                        THEN \E f2 \in SUBSET {"pulls", "pull", "reviews", "status",
                                               "existing_reviews", "approve"} :
                                LET a == ApprovePhase(sel.last, f2)
                                    n3 == [n2 EXCEPT !.apiFailed = n2.apiFailed \/ (f2 \cap a.calls) # {}]
                                IN  f2 \subseteq a.calls /\
                                    IF ~a.ok THEN Commit(Return(n3, "false"))
                                    ELSE /\ a.post => Len(prs[a.pr].reviews) < MaxReviews
                                         /\ Commit([n3 EXCEPT
                                              !.pc = "approved", !.cur = sel.last, !.curPR = a.pr,
                                              !.muts = IF a.post THEN {"approve"} ELSE {},
                                              !.prs = IF a.post
                                                      THEN [prs EXCEPT ![a.pr].reviews =
                                                              Append(@, Review("queue-bot", "APPROVED"))]
                                                      ELSE prs])
                        ELSE \E f3 \in SUBSET {"sync", "create"}, cf \in SUBSET ClosingLookups :
                                LET S == MarkIssueCompleted(StoreOf(n2), sel.last)
                                    d == Dispatch([n2 EXCEPT !.pf = S.pf, !.lcf = S.lcf], f3, cf)
                                IN  Len(d.issues) <= MaxIssues /\ Commit(d)

\* MergePhase that merges whatever the re-check says
MergePhase_ignores_recheck(p, fl) ==
    LET rdy == is_pr_ready_to_merge(prs[p], fl)
    IN  IF "pull" \in fl
        THEN [merged |-> FALSE, recheck |-> "error", rejected |-> FALSE, calls |-> {"pull"}]
        ELSE [merged |-> "merge" \notin fl /\ TrackerAcceptsMerge(p),
              recheck |-> IF rdy.ready THEN "ready" ELSE "not_ready",
              rejected |-> ~TrackerAcceptsMerge(p), calls |-> {"pull", "merge"} \cup rdy.calls]

\* auto_approve_and_merge_pr after the settle delay (lines 1163-1188): re-fetch,
\* re-check, merge
MergePhase(p, fl) ==
    LET rdy == is_pr_ready_to_merge(prs[p], fl)
    IN  IF "pull" \in fl
        THEN [merged |-> FALSE, recheck |-> "error", rejected |-> FALSE, calls |-> {"pull"}]
        ELSE IF ~rdy.ready
        THEN [merged |-> FALSE, recheck |-> "not_ready", rejected |-> FALSE,
              calls |-> {"pull"} \cup rdy.calls]
        ELSE [merged |-> "merge" \notin fl /\ TrackerAcceptsMerge(p), recheck |-> "ready",
              rejected |-> ~TrackerAcceptsMerge(p), calls |-> {"pull", "merge"} \cup rdy.calls]

\* AfterMerge that marks the file whatever the merge did
AfterMerge_marks_always(S, i, success) == MarkIssueCompleted(S, i)

\* lines 1651-1682: the file of the issue is marked completed when the merge succeeded
AfterMerge(S, i, success) == IF success THEN MarkIssueCompleted(S, i) ELSE S

MergeStep ==
    /\ pc = "approved"
    /\ \E fl \in SUBSET {"pull", "reviews", "status", "merge"}, closes \in BOOLEAN :
        LET m == MergePhase(curPR, fl)
            S == AfterMerge([pf |-> processed_files, lcf |-> last_completed_file], cur, m.merged)
            n1 == [Now EXCEPT !.apiFailed = apiFailed \/ (fl \cap m.calls) # {} \/ m.rejected,
                              !.recheck = m.recheck, !.pf = S.pf, !.lcf = S.lcf]
        IN  fl \subseteq m.calls /\ (closes => m.merged) /\
            IF ~m.merged THEN Commit(Return(n1, "false"))
            ELSE Commit(Return([n1 EXCEPT
                    !.prs = [prs EXCEPT ![curPR].state = "closed", ![curPR].merged = TRUE],
                    !.issues = MergedInto(issues, cur, closes),
                    !.muts = muts \cup {"merge"}], "true"))

----------------------------------------------------------------------------
(* Start of the process: main() runs resume_bot_state before the first cycle *)

\* resume_bot_state. The entries its closed-issue loop marks completed are written
\* by mark_file_as_completed to the file and then overwritten by the final
\* save_processed_files_state(state) of the state the loop never changed.
ResumeOn(S, rc0, fl) ==
    LET open_issues == {k \in 1..Len(issues) : issues[k].state = "open"}
        latest_open_issue == Max(open_issues)
        file_number == extract_issue_number_from_title(issues[latest_open_issue].title)
        files == IF file_number = None THEN <<>> ELSE matching_files(file_number)
        k == FirstIndex({j \in 1..Len(S.pf) : S.pf[j].filename = files[1]})
        pf == IF files = <<>> THEN S.pf
              ELSE IF k = None
              THEN Append(S.pf, Entry(files[1], latest_open_issue, "processing"))
              ELSE [S.pf EXCEPT ![k].issue_number = latest_open_issue, ![k].status = "processing"]
    IN  IF "issues" \in fl THEN [pf |-> S.pf, lcf |-> S.lcf, rc |-> rc0]
        ELSE IF open_issues = {} THEN [pf |-> S.pf, lcf |-> S.lcf, rc |-> <<None>>]
        ELSE [pf |-> pf, lcf |-> S.lcf, rc |-> <<latest_open_issue>>]

\* load_processed_files_state of a missing or corrupt state file
EmptyStore == [pf |-> <<>>, lcf |-> None]

resume_bot_state(S0, rc0, fl, cf) ==
    ResumeOn(sync_processed_files_with_github(S0, "sync" \in fl, cf), rc0, fl)

\* the process as resume_bot_state leaves it
Resumed(n, r) == [n EXCEPT !.pf = r.pf, !.lcf = r.lcf, !.rc = r.rc, !.pc = "resumed"]

\* ExitCode that reports success whatever the cycle returned
ExitCode_always_zero(returned) == 0

\* main, single run mode: sys.exit(0 if success else 1); an exception that
\* promote_next_issue raises ends the interpreter with status 1
ExitCode(returned) == IF returned = "true" THEN 0 ELSE 1

Restart ==
    /\ pc = "idle"
    /\ \E lost \in BOOLEAN, fl \in SUBSET {"sync", "issues"}, cf \in SUBSET ClosingLookups :
        Commit(Resumed(Forget,
                       resume_bot_state(IF lost THEN EmptyStore
                                        ELSE [pf |-> processed_files, lcf |-> last_completed_file],
                                        IF lost THEN <<>> ELSE resume_context, fl, cf)))

----------------------------------------------------------------------------
(* The agent and humans on the tracker *)

Env == pc # "resumed"

AgentOpensPR ==
    /\ Env /\ Len(prs) < MaxPRs
    /\ \E i \in 1..Len(issues) :
        /\ issues[i].state = "open"
        /\ Commit([Forget EXCEPT !.prs = Append(prs, NewPR(i, TRUE))])

AgentMarksReady ==
    /\ Env
    /\ \E p \in 1..Len(prs) :
        /\ prs[p].state = "open" /\ prs[p].draft
        /\ Commit([Forget EXCEPT !.prs = [prs EXCEPT ![p].draft = FALSE]])

ReviewerRequestsChanges ==
    /\ Env
    /\ \E p \in 1..Len(prs) :
        /\ prs[p].state = "open" /\ ~prs[p].draft
        /\ Len(prs[p].reviews) < MaxReviews
        /\ Commit([Forget EXCEPT !.prs = [prs EXCEPT ![p].reviews =
                                    Append(@, Review("reviewer", "CHANGES_REQUESTED"))]])

ClosePRUnmerged ==
    /\ Env
    /\ \E p \in 1..Len(prs) :
        /\ prs[p].state = "open"
        /\ Commit([Forget EXCEPT !.prs = [prs EXCEPT ![p].state = "closed"]])

ManualClose ==
    /\ Env
    /\ \E i \in 1..Len(issues) :
        /\ issues[i].state = "open"
        /\ Commit([Forget EXCEPT !.issues = [issues EXCEPT ![i].state = "closed"]])

Reopen ==
    /\ Env
    /\ \E i \in 1..Len(issues) :
        /\ issues[i].state = "closed"
        /\ Commit([Forget EXCEPT !.issues = [issues EXCEPT ![i].state = "open"]])

----------------------------------------------------------------------------
(* The two decision functions on a snapshot of one issue and the requests    *)
(* linked to it (SpecFn): the snapshot is drawn from every shape of the      *)
(* issue and every list of up to MaxLinked requests, the functions are       *)
(* evaluated on it with every outcome of their tracker calls, and the agent  *)
(* may open a newer linked request between two evaluations.                  *)

IssueShapes ==
    {[file |-> 1, title |-> [num |-> None], state |-> s, closer |-> c, assigned |-> a,
      eyes |-> e, started |-> st, finished |-> fi] :
        s \in {"open", "closed"}, c \in {"none", "merged", "unmerged"},
        a \in BOOLEAN, e \in BOOLEAN, st \in BOOLEAN, fi \in BOOLEAN}

PRShapes ==
    {NewPR(1, TRUE), NewPR(1, FALSE),
     [NewPR(1, FALSE) EXCEPT !.reviews = <<Review("reviewer", "CHANGES_REQUESTED")>>],
     [NewPR(1, FALSE) EXCEPT !.state = "closed"],
     [NewPR(1, FALSE) EXCEPT !.state = "closed", !.merged = TRUE]}

PRLists == UNION {[1..n -> PRShapes] : n \in 0..MaxLinked}

NoObs == [fn |-> "none"]

EvalWorkflow ==
    /\ pc = "fn"
    /\ \E fl \in SUBSET {"timeline", "pulls", "pull", "reviews", "status"} :
        LET w == check_copilot_workflow_status(1, fl)
        IN  /\ fl \subseteq w.calls
            /\ obs' = [fn |-> "check_copilot_workflow_status", fl |-> fl, val |-> w.val,
                       calls |-> w.calls]
    /\ UNCHANGED <<numbered, issues_dir, issues, prs, processed_files, last_completed_file, resume_context,
                   pc, cur, curPR, wf, ret, muts, apiFailed, recheck, synced>>

EvalDone ==
    /\ pc = "fn"
    /\ \E fl \in SUBSET {"closing"} :
        LET d == is_issue_done(1, fl)
        IN  /\ fl \subseteq d.calls
            /\ obs' = [fn |-> "is_issue_done", fl |-> fl, done |-> d.val, calls |-> d.calls]
    /\ UNCHANGED <<numbered, issues_dir, issues, prs, processed_files, last_completed_file, resume_context,
                   pc, cur, curPR, wf, ret, muts, apiFailed, recheck, synced>>

\* the agent opens one more request for the issue
NewerLinkedRequest ==
    /\ pc = "fn"
    /\ Len(prs) < MaxLinked
    /\ prs' = Append(prs, NewPR(1, TRUE))
    /\ obs' = NoObs
    /\ UNCHANGED <<numbered, issues_dir, issues, processed_files, last_completed_file, resume_context,
                   pc, cur, curPR, wf, ret, muts, apiFailed, recheck, synced>>

InitFn ==
    /\ numbered = FALSE
    /\ issues_dir = PaddedDir
    /\ issues \in {<<s>> : s \in IssueShapes}
    /\ prs \in PRLists
    /\ processed_files = <<>>
    /\ last_completed_file = None
    /\ resume_context = <<>>
    /\ pc = "fn"
    /\ cur = None
    /\ curPR = None
    /\ wf = "none"
    /\ ret = "none"
    /\ muts = {}
    /\ apiFailed = FALSE
    /\ recheck = "none"
    /\ synced = "none"
    /\ obs = NoObs

NextFn ==
    \/ EvalWorkflow
    \/ EvalDone
    \/ NewerLinkedRequest

SpecFn == InitFn /\ [][NextFn]_vars

----------------------------------------------------------------------------
(* Reconciliation on its own (SpecSync): sync_processed_files_with_github run *)
(* up to MaxRuns times in succession on a State Store and a tracker drawn     *)
(* from every list of up to MaxIssues issues and up to NumFiles records.      *)

SyncIssueShapes ==
    {[NewIssue(1) EXCEPT !.title = [num |-> t], !.state = s, !.closer = c] :
        t \in {None} \cup Files, s \in {"open", "closed"}, c \in {"none", "unmerged"}}

SyncEntryShapes ==
    {Entry(f, i, st) : f \in Files, i \in 1..MaxIssues, st \in {"processing", "completed"}}

RunSync ==
    /\ pc = "sync"
    /\ obs.fn = "sync" => obs.run < MaxRuns
    /\ \E failed \in BOOLEAN, cf \in SUBSET ClosingLookups :
        LET S0 == [pf |-> processed_files, lcf |-> last_completed_file]
            S == sync_processed_files_with_github(S0, failed, cf)
        IN  /\ failed => cf = {}
            /\ processed_files' = S.pf
            /\ last_completed_file' = S.lcf
            /\ obs' = [fn |-> "sync",
                       run |-> IF obs.fn = "sync" THEN obs.run + 1 ELSE 1,
                       clean |-> ~failed /\ cf = {} /\ (obs.fn = "sync" => obs.clean),
                       before |-> S0,
                       changed |-> IF failed THEN 0 ELSE SyncCounts(processed_files, 1, cf)]
    /\ UNCHANGED <<numbered, issues_dir, issues, prs, resume_context,
                   pc, cur, curPR, wf, ret, muts, apiFailed, recheck, synced>>

InitSync ==
    /\ numbered = TRUE
    /\ issues_dir = PaddedDir
    /\ issues \in UNION {[1..n -> SyncIssueShapes] : n \in 0..MaxIssues}
    /\ prs = <<>>
    /\ processed_files \in UNION {[1..n -> SyncEntryShapes] : n \in 0..NumFiles}
    /\ \A j, k \in 1..Len(processed_files) :
            processed_files[j].filename = processed_files[k].filename => j = k
    /\ last_completed_file \in {None, 1}
    /\ resume_context = <<>>
    /\ pc = "sync"
    /\ cur = None
    /\ curPR = None
    /\ wf = "none"
    /\ ret = "none"
    /\ muts = {}
    /\ apiFailed = FALSE
    /\ recheck = "none"
    /\ synced = "none"
    /\ obs = NoObs

NextSync == RunSync

SpecSync == InitSync /\ [][NextSync]_vars

----------------------------------------------------------------------------
(* The readiness evaluator on one request of any shape *)

Reviewers == {"reviewer", "maintainer"}

\* a review as the tracker lists it, with its submission time
TimedReview(who, verdict, at) == [user |-> who, state |-> verdict, at |-> at]

ReviewShapes ==
    {TimedReview(w, v, t) : w \in Reviewers, t \in 1..MaxReviews,
                            v \in {"APPROVED", "CHANGES_REQUESTED", "COMMENTED"}}

\* the tracker lists reviews in submission order; two may carry the same time
ReviewLists ==
    UNION {{r \in [1..n -> ReviewShapes] :
                /\ n > 0 => r[1].at = 1
                /\ \A k \in 1..(n - 1) : r[k + 1].at \in {r[k].at, r[k].at + 1}} :
           n \in 0..MaxReviews}

\* a check run by its status or conclusion: queued, in_progress, or completed with
\* success or with failure / cancelled / timed_out
CheckRunLists == UNION {[1..n -> {"success", "in_progress", "failure", "queued"}] : n \in 0..MaxChecks}

ReadyShapes ==
    {[NewPR(1, d) EXCEPT !.mergeable = m, !.blocked = b, !.wip = w, !.author = a,
                         !.reviews = rv, !.requested = rq, !.status = st, !.runs = cr] :
        d \in BOOLEAN, m \in {"yes", "no", "unknown"}, b \in BOOLEAN, w \in BOOLEAN,
        a \in {"copilot-swe-agent", "human-user"}, rv \in ReviewLists, rq \in BOOLEAN,
        st \in {"success", "failure", "pending"}, cr \in CheckRunLists}

EvalReady ==
    /\ pc = "ready"
    /\ \E fl \in SUBSET {"reviews", "status"} :
        LET r == is_pr_ready_to_merge(prs[1], fl)
        IN  /\ fl \subseteq r.calls
            /\ obs' = [fn |-> "is_pr_ready_to_merge", fl |-> fl, ready |-> r.ready,
                       reason |-> r.reason, calls |-> r.calls]
    /\ UNCHANGED <<numbered, issues_dir, issues, prs, processed_files, last_completed_file, resume_context,
                   pc, cur, curPR, wf, ret, muts, apiFailed, recheck, synced>>

InitReady ==
    /\ numbered = FALSE
    /\ issues_dir = PaddedDir
    /\ issues = <<>>
    /\ prs \in {<<p>> : p \in ReadyShapes}
    /\ processed_files = <<>>
    /\ last_completed_file = None
    /\ resume_context = <<>>
    /\ pc = "ready"
    /\ cur = None
    /\ curPR = None
    /\ wf = "none"
    /\ ret = "none"
    /\ muts = {}
    /\ apiFailed = FALSE
    /\ recheck = "none"
    /\ synced = "none"
    /\ obs = NoObs

NextReady == EvalReady

SpecReady == InitReady /\ [][NextReady]_vars

----------------------------------------------------------------------------
(* The resolution matcher on the texts and creation times of the listed requests *)

\* Times are minutes. A text is a sequence of pieces: a digit, "#", " ", or a word.
BufferMinutes == 5       \* timedelta(minutes=5)
WindowMinutes == 1440    \* timedelta(hours=24)

\* pattern in text
IsInfix(pattern, text) ==
    \E k \in 0..(Len(text) - Len(pattern)) : SubSeq(text, k + 1, k + Len(pattern)) = pattern

\* str.lower() and str.upper(), piece by piece
LowerPiece(c) ==
    CASE c = "Issue" -> "issue" [] c = "Closes" -> "closes" [] c = "[WIP]" -> "[wip]"
      [] c = "ISSUE" -> "issue" [] c = "CLOSES" -> "closes" [] OTHER -> c
UpperPiece(c) ==
    CASE c \in {"issue", "Issue"} -> "ISSUE" [] c \in {"closes", "Closes"} -> "CLOSES"
      [] c = "[wip]" -> "[WIP]" [] c = "x" -> "X" [] OTHER -> c
Lower(text) == [k \in DOMAIN text |-> LowerPiece(text[k])]
Upper(text) == [k \in DOMAIN text |-> UpperPiece(text[k])]

\* Strategy 1
direct_reference(issue, pr) ==
    \/ IsInfix(<<"#">> \o Decimal(issue.number), pr.body)
    \/ IsInfix(<<"#">> \o Decimal(issue.number), pr.title)
    \/ IsInfix(<<"issue", " ">> \o Decimal(issue.number), Lower(pr.body))
    \/ IsInfix(<<"fixes", " ", "#">> \o Decimal(issue.number), Lower(pr.body))
    \/ IsInfix(<<"closes", " ", "#">> \o Decimal(issue.number), Lower(pr.body))

\* Strategy 2
wip_marker(pr) == IsInfix(<<"[WIP]">>, Upper(pr.title)) \/ IsInfix(<<"[WIP]">>, Upper(pr.body))

\* Strategy 3
recent_copilot_pr(issue, pr) ==
    pr.author = "copilot-swe-agent" /\ pr.created_at - issue.created_at <= WindowMinutes

\* Strategy 4
file_reference(issue, pr) ==
    LET file_number == extract_issue_number_from_title(issue.title)
        file_ref_patterns == {Padded3(file_number), <<"#">> \o Decimal(file_number),
                              <<"issue", " ">> \o Decimal(file_number)}
    IN  /\ file_number # None
        /\ \E pattern \in file_ref_patterns :
               IsInfix(pattern, Lower(pr.title)) \/ IsInfix(pattern, Lower(pr.body))

\* MatchesIssue without the author condition of the acceptance test
MatchesIssue_any_author(issue, pr) ==
    /\ ~(pr.created_at < issue.created_at - BufferMinutes)
    /\ \/ direct_reference(issue, pr)
       \/ wip_marker(pr) /\ recent_copilot_pr(issue, pr)
       \/ recent_copilot_pr(issue, pr) /\ file_reference(issue, pr)

\* the loop body: is the listed request appended to linked_prs
MatchesIssue(issue, pr) ==
    /\ ~(pr.created_at < issue.created_at - BufferMinutes)
    /\ pr.author = "copilot-swe-agent"
    /\ \/ direct_reference(issue, pr)
       \/ wip_marker(pr) /\ recent_copilot_pr(issue, pr)
       \/ recent_copilot_pr(issue, pr) /\ file_reference(issue, pr)

\* SortByCreatedDesc that leaves the collected requests as they are
SortByCreatedDesc_unsorted(listed, idx) == idx

\* list.sort(key=created_at, reverse=True): stable, equal keys keep their order
RECURSIVE SortByCreatedDesc(_, _)
SortByCreatedDesc(listed, idx) ==
    IF idx = <<>> THEN <<>>
    ELSE LET rest == SortByCreatedDesc(listed, Tail(idx))
             h == Head(idx)
             before == {k \in 1..Len(rest) : listed[rest[k]].created_at > listed[h].created_at}
         IN  SubSeq(rest, 1, Cardinality(before)) \o <<h>>
               \o SubSeq(rest, Cardinality(before) + 1, Len(rest))

\* find_related_prs_for_issue over the listing the tracker returns: the positions
\* in the listing of the linked requests, in the order returned; [] when the listing fails
LinkedIn(issue, listed, failed) ==
    IF failed THEN <<>>
    ELSE LET F[n \in 0..Len(listed)] ==
                 IF n = 0 THEN <<>>
                 ELSE IF MatchesIssue(issue, listed[n]) THEN Append(F[n - 1], n) ELSE F[n - 1]
         IN  SortByCreatedDesc(listed, F[Len(listed)])

IssueNumber == 4         \* issue["number"], not the number of its file
IssueCreatedAt == 10     \* issue["created_at"]

MatchIssueShapes ==
    {[number |-> IssueNumber, created_at |-> IssueCreatedAt, title |-> [num |-> t]] :
        t \in {None, 1}}

Unrelated == <<"x">>

\* what a title or a body may say about issue 4 of file 001
Texts ==
    {<<"x", " ", "#", "4">>, <<"x", " ", "#", "4", "2">>, <<"Issue", " ", "4">>, <<"issue", " ", "4">>,
     <<"[wip]", " ", "x">>, <<"x", " ", "0", "0", "1">>, <<"#", "1">>, <<"Issue", " ", "1">>}

\* title and body; pr.get("body") may be None, read as ""
TextPairs ==
    {<<t, Unrelated>> : t \in Texts} \cup {<<Unrelated, t>> : t \in Texts}
        \cup {<<Unrelated, Unrelated>>, <<Unrelated, <<>>>>}

\* creation times on both sides of the buffer and of the window
ListedTimes ==
    {IssueCreatedAt - BufferMinutes - 1, IssueCreatedAt - BufferMinutes, IssueCreatedAt,
     IssueCreatedAt + WindowMinutes, IssueCreatedAt + WindowMinutes + 1}

ListedShapes ==
    {[author |-> a, created_at |-> c, title |-> tb[1], body |-> tb[2]] :
        a \in {"copilot-swe-agent", "human-user"}, c \in ListedTimes, tb \in TextPairs}

\* the answer to GET /pulls, in the order the tracker gives it: the function asks
\* for sort=created, direction=desc, and sorts what it collected again
Listings == UNION {[1..n -> ListedShapes] : n \in 0..MaxListed}

EvalMatch ==
    /\ pc = "match"
    /\ \E failed \in BOOLEAN :
        obs' = [fn |-> "find_related_prs_for_issue", failed |-> failed,
                linked |-> LinkedIn(issues[1], prs, failed)]
    /\ UNCHANGED <<numbered, issues_dir, issues, prs, processed_files, last_completed_file, resume_context,
                   pc, cur, curPR, wf, ret, muts, apiFailed, recheck, synced>>

InitMatch ==
    /\ numbered = TRUE
    /\ issues_dir = PaddedDir
    /\ issues \in {<<i>> : i \in MatchIssueShapes}
    /\ prs \in Listings
    /\ processed_files = <<>>
    /\ last_completed_file = None
    /\ resume_context = <<>>
    /\ pc = "match"
    /\ cur = None
    /\ curPR = None
    /\ wf = "none"
    /\ ret = "none"
    /\ muts = {}
    /\ apiFailed = FALSE
    /\ recheck = "none"
    /\ synced = "none"
    /\ obs = NoObs

NextMatch == EvalMatch

SpecMatch == InitMatch /\ [][NextMatch]_vars

----------------------------------------------------------------------------
(* The bot over the tracker (Spec) *)

Init ==
    /\ numbered \in BOOLEAN
    /\ issues_dir \in {NoDir, Dir(<<>>), PaddedDir}
    /\ issues = <<>>
    /\ prs = <<>>
    /\ processed_files = <<>>
    /\ last_completed_file = None
    /\ resume_context = <<>>
    /\ pc = "idle"
    /\ cur = None
    /\ curPR = None
    /\ wf = "none"
    /\ ret = "none"
    /\ muts = {}
    /\ apiFailed = FALSE
    /\ recheck = "none"
    /\ synced = "none"
    /\ obs = NoObs

----------------------------------------------------------------------------
(* The queue: directories whose files have gaps in their numbers and prefixes of *)
(* different widths, worked off by the decision cycle as humans close the issues *)

QueueNumbers == {1, 2, 10}

\* a prefix is written with the digits of its number, or zero-padded to three
QueueDirs ==
    {NoDir} \cup
    {Dir(w) : w \in UNION {{v \in [S -> 1..3] : \A f \in S : v[f] \in {Len(Decimal(f)), 3}} :
                             S \in {T \in SUBSET QueueNumbers : Cardinality(T) <= MaxQueue}}}

SelectNext ==
    /\ pc = "idle"
    /\ \E failed \in BOOLEAN, cf \in SUBSET ClosingLookups :
        LET g == get_next_unprocessed_file(StoreOf(Now), failed, cf)
        IN  /\ ~g.synced => ~failed /\ cf = {}
            /\ failed => cf = {}
            /\ obs' = [fn |-> "get_next_unprocessed_file", file |-> g.file,
                       completed |-> CompletedFiles(g.S.pf),
                       waiting |-> \E k \in 1..Len(g.S.pf) : g.S.pf[k].status = "processing"]
            /\ processed_files' = g.S.pf
            /\ last_completed_file' = g.S.lcf
    /\ UNCHANGED <<numbered, issues_dir, issues, prs, resume_context,
                   pc, cur, curPR, wf, ret, muts, apiFailed, recheck, synced>>

NextFile ==
    /\ pc = "idle"
    /\ \E after \in {None} \cup QueueNumbers :
        obs' = [fn |-> "get_next_file", after |-> after, file |-> get_next_file(after)]
    /\ UNCHANGED <<numbered, issues_dir, issues, prs, processed_files, last_completed_file,
                   resume_context, pc, cur, curPR, wf, ret, muts, apiFailed, recheck, synced>>

InitQueue ==
    /\ numbered \in BOOLEAN
    /\ issues_dir \in QueueDirs
    /\ issues = <<>>
    /\ prs = <<>>
    /\ processed_files = <<>>
    /\ last_completed_file = None
    /\ resume_context = <<>>
    /\ pc = "idle"
    /\ cur = None
    /\ curPR = None
    /\ wf = "none"
    /\ ret = "none"
    /\ muts = {}
    /\ apiFailed = FALSE
    /\ recheck = "none"
    /\ synced = "none"
    /\ obs = NoObs

NextQueue ==
    \/ Cycle
    \/ ManualClose
    \/ SelectNext
    \/ NextFile

SpecQueue == InitQueue /\ [][NextQueue]_vars

----------------------------------------------------------------------------
(* wait_for_pr_readiness (SpecWait): the loop, one check at a step, on a request *)
(* that the agent, the reviewers and the checks change while the loop sleeps     *)

\* check_interval_seconds
Intervals == {30, 45, 90}

WaitShapes ==
    {NewPR(1, FALSE), NewPR(1, TRUE),
     [NewPR(1, FALSE) EXCEPT !.mergeable = "no"],
     [NewPR(1, FALSE) EXCEPT !.blocked = TRUE],
     [NewPR(1, FALSE) EXCEPT !.status = "pending"],
     [NewPR(1, FALSE) EXCEPT !.runs = <<"in_progress">>],
     [NewPR(1, FALSE) EXCEPT !.state = "closed"],
     [NewPR(1, FALSE) EXCEPT !.state = "closed", !.merged = TRUE, !.mergeable = "unknown"]}

max_attempts(max_wait_minutes, check_interval_seconds) ==
    (max_wait_minutes * 60) \div check_interval_seconds

\* reason.lower() of the reason is_pr_ready_to_merge gives, word by word (the
\* count of reviews or reviewers and the name of a check run are left out)
ReasonText(reason) ==
    CASE reason = "blocked" -> <<"pr", "is", "blocked", "(", "mergeable_state:", "blocked", ")">>
      [] reason = "conflicts" -> <<"pr", "is", "not", "mergeable", "(", "conflicts", "or", "other", "issues", ")">>
      [] reason = "draft" -> <<"pr", "is", "still", "in", "draft", "mode">>
      [] reason = "wip" -> <<"pr", "has", "wip", "(", "work", "in", "progress", ")", "indicators">>
      [] reason = "changes" -> <<"pr", "has", "reviews", "requesting", "changes">>
      [] reason = "pending reviews" -> <<"copilot", "pr", "has", "pending", "review", "requests">>
      [] reason = "failing checks" -> <<"pr", "has", "failing", "status", "checks">>
      [] reason = "pending checks" -> <<"pr", "has", "pending", "status", "checks">>
      [] reason = "check run" -> <<"pr", "has", "in-progress", "check:">>
      [] reason = "needs approval" -> <<"pr", "needs", "at", "least", "one", "approval">>
      [] OTHER -> <<"pr", "is", "ready", "to", "merge">>

\* Permanent that finds no reason permanent
Permanent_never(reason) == FALSE

\* "conflicts" in reason.lower() or "closed" in reason.lower()
Permanent(reason) ==
    IsInfix(<<"conflicts">>, ReasonText(reason)) \/ IsInfix(<<"closed">>, ReasonText(reason))

\* the loop body on the verdict r of is_pr_ready_to_merge
WaitVerdict(o, r) ==
    IF r.ready THEN [o EXCEPT !.checks = @ + 1, !.result = "true", !.reason = r.reason]
    ELSE IF Permanent(r.reason)
    THEN [o EXCEPT !.checks = @ + 1, !.result = "false", !.reason = r.reason]
    ELSE [o EXCEPT !.checks = @ + 1, !.attempt = @ + 1, !.reason = r.reason]

\* the loop body when the fetch of the request raises
WaitError(o) ==
    [o EXCEPT !.checks = @ + 1, !.attempt = @ + 1, !.errors = @ + 1, !.reason = "error"]

WaitCheck ==
    /\ pc = "wait" /\ obs.result = "running"
    /\ obs.attempt < max_attempts(obs.max_wait_minutes, obs.check_interval_seconds)
    /\ \E fl \in SUBSET {"pull", "reviews", "status"} :
        IF "pull" \in fl
        THEN fl = {"pull"} /\ obs' = WaitError(obs)
        ELSE /\ fl \subseteq is_pr_ready_to_merge(prs[1], fl).calls
             /\ obs' = WaitVerdict(obs, is_pr_ready_to_merge(prs[1], fl))
    /\ UNCHANGED <<numbered, issues_dir, issues, prs, processed_files, last_completed_file,
                   resume_context, pc, cur, curPR, wf, ret, muts, apiFailed, recheck, synced>>

WaitTimeout ==
    /\ pc = "wait" /\ obs.result = "running"
    /\ obs.attempt >= max_attempts(obs.max_wait_minutes, obs.check_interval_seconds)
    /\ obs' = [obs EXCEPT !.result = "false", !.reason = "timeout"]
    /\ UNCHANGED <<numbered, issues_dir, issues, prs, processed_files, last_completed_file,
                   resume_context, pc, cur, curPR, wf, ret, muts, apiFailed, recheck, synced>>

\* time.sleep(check_interval_seconds): the request changes on the tracker
WaitSleep ==
    /\ pc = "wait" /\ obs.result = "running" /\ obs.checks > 0
    /\ \E shape \in WaitShapes \ {prs[1]} : prs' = <<shape>>
    /\ UNCHANGED <<numbered, issues_dir, issues, processed_files, last_completed_file,
                   resume_context, pc, cur, curPR, wf, ret, muts, apiFailed, recheck, synced, obs>>

InitWait ==
    /\ numbered = FALSE
    /\ issues_dir = PaddedDir
    /\ issues = <<>>
    /\ prs \in {<<shape>> : shape \in WaitShapes}
    /\ processed_files = <<>>
    /\ last_completed_file = None
    /\ resume_context = <<>>
    /\ pc = "wait"
    /\ cur = None
    /\ curPR = None
    /\ wf = "none"
    /\ ret = "none"
    /\ muts = {}
    /\ apiFailed = FALSE
    /\ recheck = "none"
    /\ synced = "none"
    /\ obs \in {[fn |-> "wait_for_pr_readiness", max_wait_minutes |-> m,
                 check_interval_seconds |-> c, attempt |-> 0, checks |-> 0, errors |-> 0,
                 result |-> "running", reason |-> "none"] : m \in 0..MaxWait, c \in Intervals}

NextWait ==
    \/ WaitCheck
    \/ WaitTimeout
    \/ WaitSleep

\* the loop goes on: a sleep ends, a check answers or raises
SpecWait == InitWait /\ [][NextWait]_vars /\ WF_vars(WaitCheck \/ WaitTimeout)

----------------------------------------------------------------------------
(* main in continuous mode (SpecLoop): the loop of promote_next_issue and      *)
(* time.sleep, the decision cut at the points where it writes the state file  *)
(* or the tracker, and the interrupt signal that may arrive at every point.   *)
(* pc: "top" (promote_next_issue is called), "marked" (before                 *)
(* get_next_unprocessed_file), "selected" (before create_issue), "created"    *)
(* (before mark_file_as_processing), "sleep", "exited" (the loop was left by  *)
(* break), "killed" (KeyboardInterrupt left main uncaught).                   *)
(* obs.written: the state file as the last completed cycle left it.           *)

LoopObs(S) == [fn |-> "main", written |-> S]

Store == [pf |-> processed_files, lcf |-> last_completed_file]

\* OnException that leaves the loop on every exception
OnException_breaks(kind) == "exited"

\* the except clauses around promote_next_issue: KeyboardInterrupt breaks the loop,
\* any other Exception is logged and main goes on to time.sleep
OnException(kind) == IF kind = "KeyboardInterrupt" THEN "exited" ELSE "sleep"

\* the cycle is over, promote_next_issue returned r or raised: main goes to sleep
LoopSleeps(S, r) ==
    /\ processed_files' = S.pf
    /\ last_completed_file' = S.lcf
    /\ pc' = IF r = "raised" THEN OnException("Exception") ELSE "sleep"
    /\ ret' = r
    /\ cur' = None
    /\ obs' = LoopObs(S)

\* promote_next_issue up to its first write: the last issue and its workflow state
\* (the request of get_last_bot_issue may fail: api_request raises)
LoopDecide ==
    /\ pc = "top"
    /\ \E failed \in BOOLEAN :
        IF failed THEN LoopSleeps(Store, "raised")
        ELSE IF get_last_bot_issue = None
        THEN /\ pc' = "marked"
             /\ UNCHANGED <<processed_files, last_completed_file, cur, ret, obs>>
        ELSE IF NextAction(check_copilot_workflow_status(get_last_bot_issue, {}).val) = "dispatch"
        THEN /\ processed_files' = MarkIssueCompleted(Store, get_last_bot_issue).pf
             /\ last_completed_file' = MarkIssueCompleted(Store, get_last_bot_issue).lcf
             /\ pc' = "marked"
             /\ UNCHANGED <<cur, ret, obs>>
        ELSE LoopSleeps(Store, "false")
    /\ UNCHANGED <<numbered, issues_dir, issues, prs, resume_context, curPR, wf, muts,
                   apiFailed, recheck, synced>>

\* get_next_unprocessed_file, whose sync saves the state file
LoopSelect ==
    /\ pc = "marked"
    /\ \E failed \in BOOLEAN :
        IF get_next_unprocessed_file(Store, failed, {}).file = None
        THEN /\ ~get_next_unprocessed_file(Store, failed, {}).synced => ~failed
             /\ LoopSleeps(get_next_unprocessed_file(Store, failed, {}).S, "false")
        ELSE /\ processed_files' = get_next_unprocessed_file(Store, failed, {}).S.pf
             /\ last_completed_file' = get_next_unprocessed_file(Store, failed, {}).S.lcf
             /\ cur' = get_next_unprocessed_file(Store, failed, {}).file
             /\ pc' = "selected"
             /\ UNCHANGED <<ret, obs>>
    /\ UNCHANGED <<numbered, issues_dir, issues, prs, resume_context, curPR, wf, muts,
                   apiFailed, recheck, synced>>

\* create_issue: the tracker creates the issue, or the call fails and the cycle is over
LoopCreate ==
    /\ pc = "selected" /\ Len(issues) < MaxIssues
    /\ \/ /\ issues' = Append(issues, NewIssue(cur))
          /\ pc' = "created"
          /\ UNCHANGED <<processed_files, last_completed_file, cur, ret, obs>>
       \/ /\ issues' = issues
          /\ LoopSleeps(Store, "false")
    /\ UNCHANGED <<numbered, issues_dir, prs, resume_context, curPR, wf, muts,
                   apiFailed, recheck, synced>>

\* mark_file_as_processing, and the return of promote_next_issue
LoopMark ==
    /\ pc = "created"
    /\ LoopSleeps(mark_file_as_processing(Store, cur, Len(issues)), "true")
    /\ UNCHANGED <<numbered, issues_dir, issues, prs, resume_context, curPR, wf, muts,
                   apiFailed, recheck, synced>>

\* time.sleep(POLL_INTERVAL) returns
LoopWakes ==
    /\ pc = "sleep"
    /\ pc' = "top"
    /\ ret' = "pending"
    /\ UNCHANGED <<numbered, issues_dir, issues, prs, processed_files, last_completed_file,
                   resume_context, cur, curPR, wf, muts, apiFailed, recheck, synced, obs>>

\* KeyboardInterrupt: inside the try it is caught and the loop is left by break;
\* time.sleep is outside the try, there it leaves main
Interrupt ==
    /\ pc \in {"top", "marked", "selected", "created", "sleep"}
    /\ pc' = IF pc = "sleep" THEN "killed" ELSE OnException("KeyboardInterrupt")
    /\ UNCHANGED <<numbered, issues_dir, issues, prs, processed_files, last_completed_file,
                   resume_context, cur, curPR, wf, ret, muts, apiFailed, recheck, synced, obs>>

\* a human closes an issue
LoopManualClose ==
    /\ pc \in {"top", "marked", "selected", "created", "sleep"}
    /\ \E i \in 1..Len(issues) :
        /\ issues[i].state = "open"
        /\ issues' = [issues EXCEPT ![i].state = "closed"]
    /\ UNCHANGED <<numbered, issues_dir, prs, processed_files, last_completed_file,
                   resume_context, pc, cur, curPR, wf, ret, muts, apiFailed, recheck, synced, obs>>

InitLoop ==
    /\ numbered \in BOOLEAN
    /\ issues_dir \in QueueDirs
    /\ issues = <<>>
    /\ prs = <<>>
    /\ processed_files = <<>>
    /\ last_completed_file = None
    /\ resume_context = <<>>
    /\ pc = "top"
    /\ cur = None
    /\ curPR = None
    /\ wf = "none"
    /\ ret = "none"
    /\ muts = {}
    /\ apiFailed = FALSE
    /\ recheck = "none"
    /\ synced = "none"
    /\ obs = LoopObs(EmptyStore)

NextLoop ==
    \/ LoopDecide
    \/ LoopSelect
    \/ LoopCreate
    \/ LoopMark
    \/ LoopWakes
    \/ Interrupt
    \/ LoopManualClose

\* time.sleep(POLL_INTERVAL) returns
SpecLoop == InitLoop /\ [][NextLoop]_vars /\ WF_vars(LoopWakes)

(* Start of main (SpecStart): the command line, the required settings, and   *)
(* the steps of main up to the first decision cycle or the end of the process. *)
(* obs: the mode the command line asks for, which of GITHUB_TOKEN, REPO_OWNER,  *)
(* REPO_NAME are set, whether a request was sent to the tracker, and the exit   *)
(* status once the process has ended.                                          *)
(* pc: "main", "validated" (validate_environment returned), "report" (--resume  *)
(* before its show_status), "resumed" (the first cycle is next), "exit".        *)

Modes == {"help", "status", "resume", "single", "continuous"}

\* the modes of main that send requests to the tracker
ContactingModes == {"status", "resume", "single", "continuous"}

StartObs(mode, token, owner, repo) ==
    [fn |-> "main", mode |-> mode, token |-> token, owner |-> owner, repo |-> repo,
     contacted |-> FALSE, exited |-> FALSE, code |-> 0]

\* the three checks of validate_environment
SettingsPresent(o) == o.token /\ o.owner /\ o.repo

\* sys.exit(code), or main returning (code 0)
Exits(o, code) == [o EXCEPT !.exited = TRUE, !.code = code]

Contacts(o) == [o EXCEPT !.contacted = TRUE]

\* show_status: its sync sends the listing request whatever the settings are, and
\* saves what it returns; main returns after it
ShowStatus(S) ==
    /\ processed_files' = S.pf
    /\ last_completed_file' = S.lcf
    /\ obs' = Exits(Contacts(obs), 0)
    /\ pc' = "exit"

\* a request sent without the owner or the repository name cannot be answered
Answerable(o, failed) == (~o.owner \/ ~o.repo) => failed

StartHelp ==
    /\ pc = "main" /\ obs.mode = "help"
    /\ obs' = Exits(obs, 0)
    /\ pc' = "exit"
    /\ UNCHANGED <<numbered, issues_dir, issues, prs, processed_files, last_completed_file,
                   resume_context, cur, curPR, wf, ret, muts, apiFailed, recheck, synced>>

\* --status: show_status, with no validate_environment before it
StartStatus ==
    /\ pc = "main" /\ obs.mode = "status"
    /\ \E failed \in BOOLEAN, cf \in SUBSET ClosingLookups :
        /\ Answerable(obs, failed)
        /\ failed => cf = {}
        /\ ShowStatus(sync_processed_files_with_github(Store, failed, cf))
    /\ UNCHANGED <<numbered, issues_dir, issues, prs, resume_context, cur, curPR, wf, ret,
                   muts, apiFailed, recheck, synced>>

\* validate_environment: sys.exit(1) on a missing setting; else the request of
\* get_copilot_agent_info, and sys.exit(1) when it finds no agent or fails
StartValidate ==
    /\ pc = "main" /\ obs.mode \in {"resume", "single", "continuous"}
    /\ IF ~SettingsPresent(obs)
       THEN obs' = Exits(obs, 1) /\ pc' = "exit"
       ELSE \E copilot_info \in BOOLEAN :
               IF copilot_info
               THEN obs' = Contacts(obs) /\ pc' = "validated"
               ELSE obs' = Exits(Contacts(obs), 1) /\ pc' = "exit"
    /\ UNCHANGED <<numbered, issues_dir, issues, prs, processed_files, last_completed_file,
                   resume_context, cur, curPR, wf, ret, muts, apiFailed, recheck, synced>>

StartResumedOn(r) ==
    /\ processed_files' = r.pf
    /\ last_completed_file' = r.lcf
    /\ resume_context' = r.rc
    /\ obs' = Contacts(obs)
    /\ pc' = IF obs.mode = "resume" THEN "report" ELSE "resumed"

\* resume_bot_state
StartResume ==
    /\ pc = "validated"
    /\ \E fl \in SUBSET {"sync", "issues"}, cf \in SUBSET ClosingLookups :
        /\ "sync" \in fl => cf = {}
        /\ StartResumedOn(resume_bot_state(Store, resume_context, fl, cf))
    /\ UNCHANGED <<numbered, issues_dir, issues, prs, cur, curPR, wf, ret, muts, apiFailed,
                   recheck, synced>>

\* --resume: show_status after resume_bot_state, then main returns
StartReport ==
    /\ pc = "report"
    /\ \E failed \in BOOLEAN, cf \in SUBSET ClosingLookups :
        /\ failed => cf = {}
        /\ ShowStatus(sync_processed_files_with_github(Store, failed, cf))
    /\ UNCHANGED <<numbered, issues_dir, issues, prs, resume_context, cur, curPR, wf, ret,
                   muts, apiFailed, recheck, synced>>

\* the tracker and the state file a start may find
StartIssues ==
    {<<>>, <<NewIssue(1)>>, <<[NewIssue(1) EXCEPT !.state = "closed"]>>,
     <<[NewIssue(1) EXCEPT !.state = "closed"], NewIssue(2)>>}

StartStores ==
    {<<>>, <<Entry(PaddedDir.listing[1], 1, "processing")>>,
     <<Entry(PaddedDir.listing[1], 1, "completed")>>}

InitStart ==
    /\ numbered = TRUE
    /\ issues_dir = PaddedDir
    /\ issues \in StartIssues
    /\ prs = <<>>
    /\ processed_files \in StartStores
    /\ last_completed_file = None
    /\ resume_context = <<>>
    /\ pc = "main"
    /\ cur = None
    /\ curPR = None
    /\ wf = "none"
    /\ ret = "none"
    /\ muts = {}
    /\ apiFailed = FALSE
    /\ recheck = "none"
    /\ synced = "none"
    /\ obs \in {StartObs(mode, token, owner, repo) :
                    mode \in Modes, token \in BOOLEAN, owner \in BOOLEAN, repo \in BOOLEAN}

NextStart ==
    \/ StartHelp
    \/ StartStatus
    \/ StartValidate
    \/ StartResume
    \/ StartReport

SpecStart == InitStart /\ [][NextStart]_vars

----------------------------------------------------------------------------
(* State Store alone (SpecStore): mark_file_as_processing and                 *)
(* mark_file_as_completed called in any order on a state file.                 *)
(* obs: the last call, the store before it, the call before it, and `stamped`, *)
(* the filenames whose entry holds the key "completed_at".                     *)

StoreObs(op, filename, issue_number, before, stamped, prev) ==
    [fn |-> "store", op |-> op, filename |-> filename, issue_number |-> issue_number,
     before |-> before, stamped |-> stamped, prev |-> prev]

\* the call that obs records, as the next call sees it
LastCall == [op |-> obs.op, filename |-> obs.filename, issue_number |-> obs.issue_number]

\* the entry mark_file_as_processing appends has no "completed_at"
StampedProcessing(stamped, filename) == stamped \ {filename}

\* mark_file_as_completed writes "completed_at" into the entry it finds
StampedCompleted(stamped, S, filename) ==
    IF \E k \in 1..Len(S.pf) : S.pf[k].filename = filename
    THEN stamped \cup {filename} ELSE stamped

Stored(S) ==
    /\ processed_files' = S.pf
    /\ last_completed_file' = S.lcf

MarkProcessing ==
    /\ pc = "store"
    /\ \E filename \in Files, issue_number \in 1..MaxIssues :
        /\ Stored(mark_file_as_processing(Store, filename, issue_number))
        /\ obs' = StoreObs("processing", filename, issue_number, Store,
                           StampedProcessing(obs.stamped, filename), LastCall)
    /\ UNCHANGED <<numbered, issues_dir, issues, prs, resume_context, pc, cur, curPR, wf, ret,
                   muts, apiFailed, recheck, synced>>

MarkCompleted ==
    /\ pc = "store"
    /\ \E filename \in Files :
        /\ Stored(mark_file_as_completed(Store, filename))
        /\ obs' = StoreObs("completed", filename, None, Store,
                           StampedCompleted(obs.stamped, Store, filename), LastCall)
    /\ UNCHANGED <<numbered, issues_dir, issues, prs, resume_context, pc, cur, curPR, wf, ret,
                   muts, apiFailed, recheck, synced>>

\* state files: at most one entry for a filename
StoreEntries == {Entry(f, i, st) : f \in Files, i \in 1..MaxIssues, st \in {"processing", "completed"}}

StoreShapes ==
    {<<>>} \cup {<<e>> : e \in StoreEntries}
           \cup {p \in {<<e, g>> : e \in StoreEntries, g \in StoreEntries} :
                        p[1].filename # p[2].filename}

InitStore ==
    /\ numbered = TRUE
    /\ issues_dir = PaddedDir
    /\ issues = <<>>
    /\ prs = <<>>
    /\ processed_files \in StoreShapes
    /\ last_completed_file \in {None} \cup
            {processed_files[k].filename : k \in {j \in 1..Len(processed_files) :
                                                    processed_files[j].status = "completed"}}
    /\ resume_context = <<>>
    /\ pc = "store"
    /\ cur = None
    /\ curPR = None
    /\ wf = "none"
    /\ ret = "none"
    /\ muts = {}
    /\ apiFailed = FALSE
    /\ recheck = "none"
    /\ synced = "none"
    /\ obs = StoreObs("none", None, None, Store,
                      CompletedFiles(processed_files), [op |-> "none", filename |-> None,
                                                        issue_number |-> None])

NextStore ==
    \/ MarkProcessing
    \/ MarkCompleted

SpecStore == InitStore /\ [][NextStore]_vars

----------------------------------------------------------------------------
(* The simpler variant, scripts/promote_next_github.py (SpecSimple): it keeps  *)
(* no state file; promote_next_issue takes the next file from the number in    *)
(* the title of the last bot issue.                                            *)

\* promote_next_github.is_issue_done: closed, and not closed by a request that is
\* not merged; its calls are not guarded, a failing one raises
github_is_issue_done(i, fl) ==
    IF issues[i].state # "closed" THEN [val |-> FALSE, raised |-> FALSE, calls |-> {}]
    ELSE IF "timeline" \in fl THEN [val |-> FALSE, raised |-> TRUE, calls |-> {"timeline"}]
    ELSE [val |-> issues[i].closer # "unmerged", raised |-> FALSE, calls |-> {"timeline"}]

\* issue_number = 0 when the title of the last issue has no leading number
\* ("Assuming this is the first processed issue")
AfterNumber(i) ==
    IF extract_issue_number_from_title(issues[i].title) = None THEN 0
    ELSE extract_issue_number_from_title(issues[i].title)

\* lines 424-436 on the file get_next_file returned
GithubDispatch(file, fl, calls) ==
    IF file = None THEN [ret |-> "false", file |-> None, calls |-> calls]
    ELSE IF "create" \in fl THEN [ret |-> "false", file |-> None, calls |-> calls \cup {"create"}]
    ELSE [ret |-> "true", file |-> file, calls |-> calls \cup {"create"}]

\* promote_next_github.promote_next_issue: what it returns and the file it creates
\* an issue from
github_promote_next_issue(fl) ==
    IF "issues" \in fl THEN [ret |-> "raised", file |-> None, calls |-> {"issues"}]
    ELSE IF get_last_bot_issue = None
    THEN GithubDispatch(get_next_file(None), fl, {"issues"})
    ELSE IF github_is_issue_done(get_last_bot_issue, fl).raised
    THEN [ret |-> "raised", file |-> None, calls |-> {"issues", "timeline"}]
    ELSE IF ~github_is_issue_done(get_last_bot_issue, fl).val
    THEN [ret |-> "false", file |-> None,
          calls |-> {"issues"} \cup github_is_issue_done(get_last_bot_issue, fl).calls]
    ELSE GithubDispatch(get_next_file(AfterNumber(get_last_bot_issue)), fl,
                        {"issues", "timeline"})

GithubReturns(r) ==
    /\ issues' = IF r.file = None THEN issues ELSE Append(issues, NewIssue(r.file))
    /\ ret' = r.ret
    /\ muts' = IF r.file = None THEN {} ELSE {"create"}
    /\ apiFailed' = (r.ret = "raised" \/ (r.file = None /\ "create" \in r.calls))

GithubCycle ==
    /\ pc = "idle"
    /\ \E fl \in SUBSET {"issues", "timeline", "create"} :
        /\ fl \subseteq github_promote_next_issue(fl).calls
        /\ github_promote_next_issue(fl).file # None => Len(issues) < MaxIssues
        /\ GithubReturns(github_promote_next_issue(fl))
    /\ UNCHANGED <<numbered, issues_dir, prs, processed_files, last_completed_file,
                   resume_context, pc, cur, curPR, wf, recheck, synced, obs>>

\* an issue is closed: by hand, or by a request of the agent, merged or not
GithubClose ==
    /\ pc = "idle"
    /\ \E i \in 1..Len(issues), closer \in {"none", "merged", "unmerged"} :
        /\ issues[i].state = "open"
        /\ issues' = [issues EXCEPT ![i].state = "closed", ![i].closer = closer]
    /\ ret' = "none" /\ muts' = {} /\ apiFailed' = FALSE
    /\ UNCHANGED <<numbered, issues_dir, prs, processed_files, last_completed_file,
                   resume_context, pc, cur, curPR, wf, recheck, synced, obs>>

NextSimple ==
    \/ GithubCycle
    \/ GithubClose

SpecSimple == InitQueue /\ [][NextSimple]_vars

----------------------------------------------------------------------------
(* The system *)

Next ==
    \/ Cycle
    \/ MergeStep
    \/ Restart
    \/ AgentOpensPR
    \/ AgentMarksReady
    \/ ReviewerRequestsChanges
    \/ ClosePRUnmerged
    \/ ManualClose
    \/ Reopen

Spec == Init /\ [][Next]_vars

----------------------------------------------------------------------------
(* Properties *)

Created == Len(issues') > Len(issues)

\* closed, and not closed by a request that was never merged
VerifiedDone(i) == issues[i].state = "closed" /\ issues[i].closer # "unmerged"

Processing == {k \in 1..Len(processed_files) : processed_files[k].status = "processing"}

\* C1: promote_next_issue creates an issue only when every bot issue dispatched
\* before it is closed and verified done (Spec)
C1_CreatesOnlyWhenAllDone ==
    [][Created => \A i \in 1..Len(issues) : VerifiedDone(i)]_vars

\* C2: at most one entry of processed_files has status processing, in every
\* reachable state (Spec)
C2_OneProcessing == Cardinality(Processing) <= 1

\* C3: no file is dispatched twice: the file of a new issue is the file of no
\* issue created before, restarts with a lost state file included (Spec)
C3_NoFileTwice ==
    [][Created => \A i \in 1..Len(issues) : issues[i].file # issues'[Len(issues')].file]_vars

\* a step that sends a tracker mutation of the bot: an issue created, an approval
\* submitted, a request merged
Approved(p) == Len(prs'[p].reviews) > Len(prs[p].reviews)
                 /\ prs'[p].reviews[Len(prs'[p].reviews)] = Review("queue-bot", "APPROVED")
Merged(p) == prs'[p].merged /\ ~prs[p].merged

\* C4: a cycle that finds waiting_for_copilot or copilot_working changes nothing on
\* the tracker and returns False; an approval or a merge is sent only in
\* pr_ready_for_review; an issue is created only in completed, or when there is
\* no bot issue at all (Spec)
C4_SideEffectsByState ==
    [][/\ wf' \in {"waiting_for_copilot", "copilot_working"}
            => tracker' = tracker /\ ret' = "false"
       /\ (\E p \in 1..Len(prs) : Approved(p) \/ Merged(p)) => wf' = "pr_ready_for_review"
       /\ Created => \/ wf' = "completed"
                     \/ wf' = "none" /\ issues = <<>>]_vars

\* a cycle found an issue waiting, sent nothing and returned False
C4_Witness ==
    /\ wf \in {"waiting_for_copilot", "copilot_working"}
    /\ ret = "false" /\ muts = {} /\ pc = "idle"
    /\ \E p \in 1..Len(prs) : prs[p].state = "open"

\* the snapshot of SpecFn, as the rules of the workflow state machine read it
Snap ==
    LET linked == IF "pulls" \in obs.fl THEN {}
                  ELSE {p \in 1..Len(prs) : prs[p].issue = 1 /\ prs[p].author = "copilot-swe-agent"}
    IN  [closed |-> issues[1].state = "closed",
         assigned |-> issues[1].assigned,
         timeline |-> "timeline" \notin obs.fl,
         linked |-> linked # {},
         latest |-> IF linked = {} THEN NewPR(1, TRUE) ELSE prs[Max(linked)],
         fetched |-> "pull" \notin obs.fl,
         working |-> issues[1].started /\ ~issues[1].finished,
         acknowledged |-> issues[1].eyes]

IsWorkflowObs == obs.fn = "check_copilot_workflow_status"

\* C5 as stated, with every tracker call succeeding: the first matching rule of
\* closed => completed; not assigned => waiting_for_copilot; latest linked
\* request closed => completed; open and ready => pr_ready_for_review; open and
\* not ready => copilot_working; no linked request and acknowledged =>
\* copilot_working; otherwise waiting_for_copilot (SpecFn)
C5_AsStated ==
    IsWorkflowObs /\ obs.fl = {} =>
        LET x == Snap
        IN  obs.val =
              IF x.closed THEN "completed"
              ELSE IF ~x.assigned THEN "waiting_for_copilot"
              ELSE IF x.linked /\ x.latest.state = "closed" THEN "completed"
              ELSE IF x.linked /\ is_pr_ready_to_merge(x.latest, {}).ready THEN "pr_ready_for_review"
              ELSE IF x.linked THEN "copilot_working"
              ELSE IF x.acknowledged THEN "copilot_working"
              ELSE "waiting_for_copilot"

\* C5, amended: the rules in their order, one conjunct each, with the rule the
\* statement leaves out (no linked request, and the agent's comments say that it
\* started work and do not say that it finished => copilot_working) and with what
\* a failing call leads to: the timeline => copilot_working; the listing of
\* requests => no request is linked; the fetch of the request => copilot_working
\* for a draft and pr_ready_for_review otherwise (SpecFn)
C5_RuleOrder ==
    IsWorkflowObs =>
        LET x == Snap
            open == ~x.closed /\ x.assigned /\ x.timeline
            ready == is_pr_ready_to_merge(x.latest, obs.fl).ready
        IN  /\ x.closed => obs.val = "completed"
            /\ ~x.closed /\ ~x.assigned => obs.val = "waiting_for_copilot"
            /\ ~x.closed /\ x.assigned /\ ~x.timeline => obs.val = "copilot_working"
            /\ open /\ x.linked /\ x.latest.state = "closed" => obs.val = "completed"
            /\ open /\ x.linked /\ x.latest.state = "open" /\ x.fetched /\ ready
                    => obs.val = "pr_ready_for_review"
            /\ open /\ x.linked /\ x.latest.state = "open" /\ x.fetched /\ ~ready
                    => obs.val = "copilot_working"
            /\ open /\ x.linked /\ x.latest.state = "open" /\ ~x.fetched
                    => obs.val = IF x.latest.draft THEN "copilot_working" ELSE "pr_ready_for_review"
            /\ open /\ ~x.linked /\ x.working => obs.val = "copilot_working"
            /\ open /\ ~x.linked /\ ~x.working /\ x.acknowledged => obs.val = "copilot_working"
            /\ open /\ ~x.linked /\ ~x.working /\ ~x.acknowledged => obs.val = "waiting_for_copilot"

\* an open, assigned issue without a linked request and without acknowledgement,
\* whose agent said that it started work: copilot_working, with every call succeeding
C5_Witness ==
    /\ IsWorkflowObs /\ obs.fl = {}
    /\ issues[1].state = "open" /\ issues[1].assigned /\ prs = <<>>
    /\ issues[1].started /\ ~issues[1].finished /\ ~issues[1].eyes
    /\ obs.val = "copilot_working"

WorkflowStatus(i) == check_copilot_workflow_status(i, {}).val

\* C6: an issue whose workflow state is completed is completed ever after; here
\* for the steps that leave the issue itself as it is (SpecFn)
C6_CompletedIsTerminal ==
    [][WorkflowStatus(1) = "completed" /\ issues' = issues
            => WorkflowStatus(1)' = "completed"]_vars

\* C7: is_issue_done is True exactly for a closed issue without a closing request
\* or with a merged one, and asks the tracker nothing for an open issue (SpecFn)
C7_DoneIffClosedAndMerged ==
    obs.fn = "is_issue_done" =>
        /\ obs.done <=> (issues[1].state = "closed" /\ issues[1].closer \in {"none", "merged"})
        /\ issues[1].state = "open" => obs.calls = {}

HasApproval(p) ==
    \E k \in 1..Len(prs[p].reviews) :
        IsBotLogin(prs[p].reviews[k].user) /\ prs[p].reviews[k].state = "APPROVED"

PassesReadiness(p) ==
    \E fl \in SUBSET {"reviews", "status"} : is_pr_ready_to_merge(prs[p], fl).ready

\* C8: a request is merged only in the step after the settle delay, for the
\* request the cycle approved and the issue the cycle is about, with the bot's
\* approval on it and a re-check that passed is_pr_ready_to_merge; a re-check
\* that finds the request not ready sends no merge and the cycle returns False (Spec)
C8_MergeAfterApprovalAndRecheck ==
    [][/\ \A p \in 1..Len(prs) :
            Merged(p) => /\ pc = "approved" /\ p = curPR /\ prs[p].issue = cur
                         /\ HasApproval(p)
                         /\ recheck' = "ready" /\ PassesReadiness(p)
       /\ recheck' = "not_ready" => prs' = prs /\ issues' = issues /\ ret' = "false"]_vars

\* the request was approved, a reviewer requested changes during the settle
\* delay, the re-check found it not ready and nothing was merged
C8_Witness ==
    /\ recheck = "not_ready" /\ ret = "false" /\ pc = "idle"
    /\ \E p \in 1..Len(prs) : HasApproval(p) /\ prs[p].state = "open" /\ ~prs[p].merged

\* C9: a cycle in pr_ready_for_review whose approval is not submitted merges
\* nothing; a merge that fails after the approval makes the cycle return False,
\* leaves the State Store as it is (the record stays processing), creates no
\* issue and leaves the bot between cycles, where the next cycle starts anew (Spec)
C9_FailedApprovalOrMerge ==
    [][/\ pc # "approved" /\ wf' = "pr_ready_for_review" /\ pc' # "approved"
            => ret' = "false" /\ tracker' = tracker
       /\ pc = "approved" /\ pc' # "approved" /\ ~Merged(curPR)
            => /\ ret' = "false"
               /\ store' = store /\ tracker' = tracker /\ pc' = "idle"]_vars

\* the merge call failed after a re-check that passed: the cycle returned False
\* and the record of the issue's file is still processing
C9_Witness ==
    /\ recheck = "ready" /\ ret = "false" /\ pc = "idle" /\ "merge" \notin muts
    /\ \E p \in 1..Len(prs) : HasApproval(p) /\ prs[p].state = "open"
    /\ \E k \in Processing : processed_files[k].issue_number \in 1..Len(issues)

\* C10: a cycle in which a tracker call failed merges nothing, creates no issue
\* and reports that it took no action (Spec)
C10_FailedCallNoAction ==
    apiFailed /\ pc = "idle" => muts \cap {"merge", "create"} = {} /\ ret # "true"

\* C11: an issue is created only in a cycle whose reconciliation pass read the
\* tracker: never on a local state that the cycle did not reconcile (Spec)
C11_SyncBeforeDispatch ==
    [][Created => synced' = "ok"]_vars

\* C12: a reconciliation pass that follows another one, both reading the tracker
\* without a failing call, leaves the State Store as the first left it and
\* updates and adds no record (SpecSync)
C12_SyncIdempotent ==
    obs.fn = "sync" /\ obs.run >= 2 /\ obs.clean =>
        /\ [pf |-> processed_files, lcf |-> last_completed_file] = obs.before
        /\ obs.changed = 0

\* a cycle that starts where the cycle before it ended (nothing happened on the
\* tracker in between), after that one took no action and reached no settle
\* delay; no tracker call fails in either
SecondCallInARow ==
    /\ pc = "idle" /\ ret = "false" /\ muts = {} /\ recheck = "none" /\ ~apiFailed
    /\ ret' # "none" /\ ~apiFailed'

\* C13: promote_next_issue called twice in a row with no tracker change in
\* between finds the same workflow state the second time when the first call
\* took no action, and does not dispatch the file the first call dispatched (Spec)
C13_DecisionIdempotent ==
    [][/\ SecondCallInARow => wf' = wf
       /\ pc = "idle" /\ muts = {"create"} /\ Created
            => issues'[Len(issues')].file # issues[Len(issues)].file]_vars

----------------------------------------------------------------------------
(* Readiness evaluator (SpecReady) *)

IsReadyObs == obs.fn = "is_pr_ready_to_merge"

\* C14: a request in draft is never reported ready, whatever its reviews,
\* requested reviewers, status checks, check runs and author are
C14_DraftNeverReady == IsReadyObs /\ prs[1].draft => ~obs.ready

\* a draft that every other check would pass, turned down as a draft
C14_Witness ==
    /\ IsReadyObs /\ prs[1].draft /\ obs.reason = "draft"
    /\ prs[1].author = "copilot-swe-agent" /\ ~prs[1].requested
    /\ \E k \in 1..Len(prs[1].reviews) : prs[1].reviews[k].state = "APPROVED"
    /\ prs[1].status = "success" /\ prs[1].runs = <<"success">>
    /\ ~is_pr_ready_to_merge(prs[1], {}).ready
    /\ is_pr_ready_to_merge([prs[1] EXCEPT !.draft = FALSE], {}).ready

\* the states of the reviews no later review of the same reviewer follows
MostRecentVerdicts(reviews) ==
    {reviews[k].state : k \in {k \in 1..Len(reviews) :
        \A j \in 1..Len(reviews) : reviews[j].user = reviews[k].user => reviews[j].at <= reviews[k].at}}

\* C15: a request of another author than the agent, none of whose reviewers'
\* latest verdicts is an approval, is never reported ready
C15_NonAgentNeedsApproval ==
    IsReadyObs /\ prs[1].author # "copilot-swe-agent"
               /\ "APPROVED" \notin MostRecentVerdicts(prs[1].reviews) => ~obs.ready

\* a reviewer approved and commented afterwards: no approval is left, and a request
\* that passes every other check is turned down for it
C15_Witness ==
    /\ IsReadyObs /\ prs[1].author # "copilot-swe-agent" /\ obs.fl = {}
    /\ prs[1].reviews = <<TimedReview("reviewer", "APPROVED", 1), TimedReview("reviewer", "COMMENTED", 2)>>
    /\ obs.reason = "needs approval" /\ ~obs.ready

\* C16: the mergeability check turns a request down exactly when its mergeable
\* field is no; a request whose field is yes or unknown passes that check
C16_MergeableOnlyNo ==
    IsReadyObs /\ ~prs[1].blocked => (obs.reason = "conflicts" <=> prs[1].mergeable = "no")

\* no reviewer has two reviews submitted at the same time
DistinctTimes(reviews) ==
    \A j, k \in 1..Len(reviews) :
        j # k /\ reviews[j].user = reviews[k].user => reviews[j].at # reviews[k].at

\* the reviews without those a later review of the same reviewer superseded
LatestOnly(reviews) ==
    LET keep == {k \in 1..Len(reviews) : \A j \in 1..Len(reviews) :
                    reviews[j].user = reviews[k].user => reviews[j].at <= reviews[k].at}
        F[n \in 0..Len(reviews)] ==
            IF n = 0 THEN <<>>
            ELSE IF n \in keep THEN Append(F[n - 1], reviews[n]) ELSE F[n - 1]
    IN  F[Len(reviews)]

ReachesReviews == ~prs[1].blocked /\ prs[1].mergeable = "yes" /\ ~prs[1].draft /\ ~prs[1].wip

\* C17: only the latest verdict of each reviewer counts: the answer is the one the
\* request would get without its superseded reviews, and a request that reaches the
\* review check is turned down for requested changes exactly when some reviewer's
\* most recently submitted review requests changes
C17_LatestVerdictCounts ==
    IsReadyObs /\ DistinctTimes(prs[1].reviews) =>
        /\ obs.ready = is_pr_ready_to_merge(
                            [prs[1] EXCEPT !.reviews = LatestOnly(prs[1].reviews)], obs.fl).ready
        /\ ReachesReviews =>
              (obs.reason = "changes" <=> "CHANGES_REQUESTED" \in MostRecentVerdicts(prs[1].reviews))

\* an agent's request that no early check and no requested change turned down
AgentPastEarlyChecks ==
    /\ prs[1].author = "copilot-swe-agent" /\ ReachesReviews
    /\ DistinctTimes(prs[1].reviews)
    /\ "CHANGES_REQUESTED" \notin MostRecentVerdicts(prs[1].reviews)

\* C18: an agent's request past the early checks is not ready when reviews are
\* requested and no reviewer approves; otherwise it is not ready whenever the status
\* or a check run is failed, pending (queued included) or in progress; and it is
\* ready when none of these holds
C18_AgentChecksGate ==
    IsReadyObs /\ AgentPastEarlyChecks =>
        (obs.ready <=>
            /\ ~(prs[1].requested /\ "APPROVED" \notin MostRecentVerdicts(prs[1].reviews))
            /\ prs[1].status = "success"
            /\ \A k \in 1..Len(prs[1].runs) : prs[1].runs[k] = "success")

----------------------------------------------------------------------------
(* Resolution matcher (SpecMatch) *)

IsMatchObs == obs.fn = "find_related_prs_for_issue"

Returned == {obs.linked[k] : k \in 1..Len(obs.linked)}

\* C19: every request returned is the agent's and was created no earlier than
\* 5 minutes before the issue, whatever its title and body say
C19_AgentAndNotTooOld ==
    IsMatchObs =>
        \A p \in Returned :
            /\ prs[p].author = "copilot-swe-agent"
            /\ prs[p].created_at >= issues[1].created_at - 5

\* a request that names the issue is left out for its author or its age, and the
\* agent's request created exactly 5 minutes before the issue is returned
C19_Witness ==
    /\ IsMatchObs /\ ~obs.failed /\ Len(prs) = 2
    /\ prs[1].created_at = issues[1].created_at - 5 /\ 1 \in Returned
    /\ 2 \notin Returned
    /\ IsInfix(<<"#", "4">>, prs[2].title) /\ ~IsInfix(<<"#", "4", "2">>, prs[2].title)
    /\ \/ prs[2].author = "human-user" /\ prs[2].created_at = prs[1].created_at
       \/ prs[2].author = "copilot-swe-agent" /\ prs[2].created_at < prs[1].created_at

\* the request says pattern in its title or its body, in any case of the letters
Says(pr, pattern) == IsInfix(pattern, Lower(pr.title)) \/ IsInfix(pattern, Lower(pr.body))

\* (1) the forms #id, issue id, fixes #id, closes #id of the issue's identifier
RefersToIssue(pr) ==
    \E form \in {<<"#", "4">>, <<"issue", " ", "4">>, <<"fixes", " ", "#", "4">>,
                  <<"closes", " ", "#", "4">>} : Says(pr, form)

\* created within 24 hours after the issue
InWindow(pr) == pr.created_at - issues[1].created_at <= 24 * 60

\* (3) the number of the issue's file, zero-padded or bare
RefersToFile(pr) ==
    /\ issues[1].title.num = 1
    /\ \E form \in {<<"0", "0", "1">>, <<"#", "1">>, <<"issue", " ", "1">>} : Says(pr, form)

\* C20: of the agent's requests that pass the age filter, the ones returned are
\* exactly those that (1) refer to the issue's identifier in title or body, or
\* (2) carry a work-in-progress marker and are within 24 hours of the issue, or
\* (3) are within 24 hours of the issue and refer to the number of its file
C20_AcceptedIffStrategy ==
    IsMatchObs =>
        \A p \in 1..Len(prs) :
            prs[p].author = "copilot-swe-agent" /\ prs[p].created_at >= issues[1].created_at - 5 =>
                (p \in Returned <=>
                    \/ RefersToIssue(prs[p])
                    \/ Says(prs[p], <<"[wip]">>) /\ InWindow(prs[p])
                    \/ InWindow(prs[p]) /\ RefersToFile(prs[p]))

\* C21: the requests are returned once each, most recently created first, those
\* of equal creation time in the order the tracker listed them; so the first one,
\* which the workflow takes as the linked request, is the most recently created
C21_MostRecentFirst ==
    IsMatchObs =>
        /\ Len(obs.linked) = Cardinality(Returned)
        /\ \A j, k \in 1..Len(obs.linked) : j < k =>
              \/ prs[obs.linked[j]].created_at > prs[obs.linked[k]].created_at
              \/ /\ prs[obs.linked[j]].created_at = prs[obs.linked[k]].created_at
                 /\ obs.linked[j] < obs.linked[k]
        /\ \A p \in Returned : prs[obs.linked[1]].created_at >= prs[p].created_at

\* two requests are accepted and the tracker listed the older one first
C21_Witness ==
    /\ IsMatchObs /\ Len(prs) = 2
    /\ prs[1].created_at < prs[2].created_at
    /\ obs.linked = <<2, 1>>

----------------------------------------------------------------------------
(* The order of the queue (SpecQueue) *)

IsNextFileObs == obs.fn = "get_next_file"
IsSelectObs == obs.fn = "get_next_unprocessed_file"

\* the files of the directory, by the numbers of their prefixes
FilesHere == DOMAIN issues_dir.width

\* the file of the least number among `of`, None when there is none
LeastOf(of) == IF of = {} THEN None ELSE CHOOSE f \in of : \A g \in of : f <= g

\* C22: a gap in the numbers is skipped: get_next_file gives the existing file of
\* the next higher number, and none only when no file has a higher number;
\* get_next_unprocessed_file, when no entry is in processing, gives the existing
\* file of the least number that no completed entry names, and none only when
\* every file is completed
C22_GapSkipped ==
    /\ IsNextFileObs /\ obs.after # None =>
          obs.file = LeastOf({f \in FilesHere : f > obs.after})
    /\ IsSelectObs /\ ~obs.waiting =>
          obs.file = LeastOf(FilesHere \ obs.completed)

\* C23: the file of an issue that promote_next_issue creates has the least number
\* among the files that no completed entry names
C23_AscendingDispatch ==
    [][Created =>
          issues'[Len(issues')].file = LeastOf(FilesHere \ CompletedFiles(processed_files'))]_vars

----------------------------------------------------------------------------
(* The scenarios of the decision cycle *)

\* a step that is one call of promote_next_issue, up to its return or to the
\* settle delay
CycleStep == pc \in {"idle", "resumed"} /\ ret' # "none"

\* last_issue of the cycle that starts in this state, when its calls succeed
LastIssueOfCycle ==
    IF resume_context # <<>> /\ resume_context[1] # None THEN resume_context[1]
    ELSE get_last_bot_issue

LinkedTo(i) == {p \in 1..Len(prs) : prs[p].issue = i}

ClosedManually(i) ==
    issues[i].state = "closed" /\ issues[i].closer = "none" /\ LinkedTo(i) = {}

AgentRequestClear(p) ==
    /\ prs[p].state = "open" /\ ~prs[p].draft /\ prs[p].author = "copilot-swe-agent"
    /\ prs[p].status = "success" /\ \A k \in 1..Len(prs[p].runs) : prs[p].runs[k] = "success"
    /\ ~prs[p].requested
    /\ CountState(LatestReviewStates(prs[p].reviews), "CHANGES_REQUESTED") = 0

HasRecord(pf, f, status) == \E k \in 1..Len(pf) : pf[k].filename = f /\ pf[k].status = status

\* C25: when the request linked to the cycle's open issue is such a request, the
\* cycle, its calls succeeding, finds pr_ready_for_review and goes on to approve
\* and merge it; the merge of the request, still such after the settle delay,
\* makes the cycle return True with the entry of the issue's file completed
C25_ReadyIsMerged ==
    [][/\ CycleStep /\ ~apiFailed' /\ LastIssueOfCycle # None
          /\ issues[LastIssueOfCycle].state = "open" /\ issues[LastIssueOfCycle].assigned
          /\ LinkedTo(LastIssueOfCycle) # {} /\ AgentRequestClear(Max(LinkedTo(LastIssueOfCycle)))
          => /\ wf' = "pr_ready_for_review" /\ pc' = "approved"
             /\ cur' = LastIssueOfCycle /\ curPR' = Max(LinkedTo(LastIssueOfCycle))
             /\ \E k \in 1..Len(prs'[curPR'].reviews) :
                    /\ IsBotLogin(prs'[curPR'].reviews[k].user)
                    /\ prs'[curPR'].reviews[k].state = "APPROVED"
       /\ pc = "approved" /\ pc' = "idle" /\ ~apiFailed' /\ AgentRequestClear(curPR)
          => /\ ret' = "true" /\ prs'[curPR].merged /\ "merge" \in muts'
             /\ HasRecord(processed_files', issues[cur].file, "completed")]_vars

\* the cycle found the request ready, approved it, merged it and completed the entry
C25_Witness ==
    /\ wf = "pr_ready_for_review" /\ ret = "true" /\ muts = {"approve", "merge"}
    /\ prs[1].merged /\ HasRecord(processed_files, issues[prs[1].issue].file, "completed")

\* C26 as stated: an open issue with the agent assigned and no request at all is
\* in copilot_working, and the cycle waits
C26_AsStated ==
    IsWorkflowObs /\ issues[1].state = "open" /\ issues[1].assigned /\ prs = <<>> =>
        obs.val = "copilot_working" /\ NextAction(obs.val) = "wait"

\* C26, amended: such an issue is in copilot_working when the agent's comments say
\* that it started and not that it finished, when the agent acknowledged the
\* issue, or when the timeline cannot be read; else in waiting_for_copilot; the
\* cycle waits in both states
C26_NoRequestWaits ==
    IsWorkflowObs /\ issues[1].state = "open" /\ issues[1].assigned /\ prs = <<>> =>
        /\ obs.val = IF \/ "timeline" \in obs.fl
                        \/ issues[1].started /\ ~issues[1].finished
                        \/ issues[1].eyes
                     THEN "copilot_working" ELSE "waiting_for_copilot"
        /\ NextAction(obs.val) = "wait"

\* an acknowledged issue without a request, every call succeeding
C26_Witness ==
    /\ IsWorkflowObs /\ obs.fl = {}
    /\ issues[1].state = "open" /\ issues[1].assigned /\ prs = <<>>
    /\ issues[1].eyes /\ ~issues[1].started
    /\ obs.val = "copilot_working"

\* a step at which a call of promote_next_issue ends, ret' telling how
CallEnds == ret' \in {"true", "false", "raised"}

\* C27: with no file to dispatch (the directory is absent or holds no file) and
\* the tracker answering that it has no bot issue, promote_next_issue raises
\* nothing, returns False, creates no issue and sends nothing to the tracker, and
\* the single run exits with a nonzero code
C27_NothingToDispatch ==
    [][/\ CycleStep /\ issues = <<>> /\ ~apiFailed'
       /\ ~issues_dir.exists \/ md_files = <<>>
       => /\ ret' = "false" /\ ExitCode(ret') # 0
          /\ ~Created /\ muts' = {}
          /\ <<processed_files', last_completed_file'>> = <<processed_files, last_completed_file>>]_vars

\* the cycle ran without the directory and without a bot issue
C27_Witness ==
    /\ ~issues_dir.exists /\ issues = <<>>
    /\ ret = "false" /\ ~apiFailed /\ synced = "none"

\* every file of the queue is named by a completed entry
AllProcessed(pf) == FilesHere # {} /\ FilesHere \subseteq CompletedFiles(pf)

\* C28: the single run exits with 0 exactly when the cycle took an action (the
\* tracker accepted a creation, an approval or a merge) or every file of the queue
\* is completed, and with a nonzero code otherwise
C28_ExitCode ==
    [][CallEnds =>
          (ExitCode(ret') = 0 <=> muts' # {} \/ AllProcessed(processed_files'))]_vars

----------------------------------------------------------------------------
(* wait_for_pr_readiness (SpecWait) *)

IsWaitObs == obs.fn = "wait_for_pr_readiness"

MaxAttempts == max_attempts(obs.max_wait_minutes, obs.check_interval_seconds)

NotMergeable(pr) == ~pr.blocked /\ pr.mergeable \in {"no", "unknown"}

\* C29: wait_for_pr_readiness ends, after at most (max_wait_minutes * 60) div
\* check_interval_seconds checks; a check that finds the request ready makes it
\* return True, one that finds conflicts makes it return False at once, a check
\* that raises or finds the request not ready for another reason uses up one
\* attempt, and with no attempt left it returns False
C29_BoundedWait ==
    /\ [](IsWaitObs => obs.checks <= MaxAttempts /\ obs.attempt <= obs.checks)
    /\ [][IsWaitObs /\ obs.result = "running" /\ obs' # obs =>
             /\ obs.attempt < MaxAttempts =>
                   /\ obs'.checks = obs.checks + 1
                   /\ obs'.errors # obs.errors =>
                         obs'.result = "running" /\ obs'.attempt = obs.attempt + 1
                   /\ obs'.errors = obs.errors =>
                         /\ is_pr_ready_to_merge(prs[1], {}).ready => obs'.result = "true"
                         /\ obs'.result = "true" =>
                               \E fl \in SUBSET {"reviews", "status"} :
                                   is_pr_ready_to_merge(prs[1], fl).ready
                         /\ NotMergeable(prs[1]) =>
                               obs'.result = "false" /\ obs'.attempt = obs.attempt
                         /\ obs'.result = "false" => NotMergeable(prs[1])
                         /\ obs'.result = "running" => obs'.attempt = obs.attempt + 1
             /\ obs.attempt >= MaxAttempts =>
                   obs'.result = "false" /\ obs'.checks = obs.checks]_vars
    /\ <>(IsWaitObs /\ obs.result # "running")

\* the wait gave up after two checks, one of which raised
C29_Witness ==
    /\ IsWaitObs /\ obs.result = "false" /\ obs.reason = "timeout"
    /\ obs.checks = 2 /\ MaxAttempts = 2 /\ obs.errors = 1

----------------------------------------------------------------------------
(* main in continuous mode (SpecLoop) *)

Interrupted == pc \notin {"exited", "killed"} /\ pc' \in {"exited", "killed"}

\* C30: an interrupt at any point of the loop is caught and the loop is left by
\* its break, with the state file as the last completed cycle wrote it
C30_InterruptHandled ==
    [][Interrupted => pc' = "exited" /\ Store' = obs.written]_vars

----------------------------------------------------------------------------
(* Start of main *)

IsStartObs == pc \in {"main", "validated", "report", "resumed", "exit"} /\ obs.fn = "main"
                /\ "mode" \in DOMAIN obs

\* C31: in every mode that contacts the tracker, with the token, the owner or the
\* repository name missing the process sends no request to the tracker, goes no
\* further than validate_environment, and its exit status is not zero
C31_EagerValidation ==
    (IsStartObs /\ obs.mode \in ContactingModes /\ ~SettingsPresent(obs))
        => /\ ~obs.contacted
           /\ pc \in {"main", "exit"}
           /\ obs.exited => obs.code # 0

----------------------------------------------------------------------------
(* State Store marking *)

IsStoreObs == pc = "store"

EntriesOf(pf, filename) == {k \in 1..Len(pf) : pf[k].filename = filename}

\* the entries of the other files, in their order
OthersOf(pf, filename) ==
    LET other(e) == e.filename # filename
    IN  SelectSeq(pf, other)

TheEntry(filename) == processed_files[CHOOSE k \in EntriesOf(processed_files, filename) : TRUE]

\* mark_file_as_completed(f) right after mark_file_as_processing(f, id)
CompletedAfterProcessing ==
    /\ obs.op = "completed"
    /\ obs.prev.op = "processing"
    /\ obs.prev.filename = obs.filename

\* C32: after mark_file_as_processing(f, id) the store holds exactly one entry for f,
\* processing with issue_number id; after mark_file_as_completed(f) following it the
\* entry is completed, keeps id, holds completed_at, and last_completed_file is f;
\* both calls leave the entries of the other files as they were
C32_Marking ==
    IsStoreObs =>
        /\ obs.op = "processing" =>
            /\ Cardinality(EntriesOf(processed_files, obs.filename)) = 1
            /\ TheEntry(obs.filename) = Entry(obs.filename, obs.issue_number, "processing")
            /\ last_completed_file = obs.before.lcf
        /\ CompletedAfterProcessing =>
            /\ Cardinality(EntriesOf(processed_files, obs.filename)) = 1
            /\ TheEntry(obs.filename) = Entry(obs.filename, obs.prev.issue_number, "completed")
            /\ obs.filename \in obs.stamped
            /\ last_completed_file = obs.filename
        /\ obs.op # "none" =>
            OthersOf(processed_files, obs.filename) = OthersOf(obs.before.pf, obs.filename)

C32_Witness ==
    /\ IsStoreObs /\ CompletedAfterProcessing
    /\ obs.prev.issue_number = 2
    /\ OthersOf(processed_files, obs.filename) # <<>>
    /\ Len(obs.before.pf) = 2

----------------------------------------------------------------------------
(* Exceptions in continuous mode *)

CycleRaises == pc = "top" /\ ret # "raised" /\ ret' = "raised"

\* C33: a cycle that raises an exception does not end the loop: main goes to its
\* sleep with the state file untouched, and from that sleep the next cycle starts,
\* unless the interrupt signal ends the process first
C33_ExceptionKeepsLoop ==
    /\ [][CycleRaises => pc' = "sleep" /\ Store' = Store]_vars
    /\ [][(pc = "sleep" /\ pc' # "sleep") => (pc' = "top" \/ Interrupted)]_vars
    /\ (pc = "sleep" /\ ret = "raised") ~> (pc \in {"top", "killed"})

C33_Witness == pc = "sleep" /\ ret = "raised" /\ issues # <<>> /\ processed_files # <<>>

----------------------------------------------------------------------------
(* A creation that fails *)

\* the cycle that has just ended got a file from get_next_unprocessed_file and
\* returned False: its create_issue failed. The file is the one the state file, as
\* get_next_unprocessed_file left it, gives.
FailedCreation ==
    /\ pc = "idle" /\ ret = "false" /\ muts = {}
    /\ wf \in {"none", "completed"}
    /\ NextUnprocessed(Store) # None

\* the cycle that follows at once gets to get_next_unprocessed_file
SelectsNext == ret' \in {"true", "false"} /\ wf' \in {"none", "completed"}

\* C34: a cycle whose create_issue fails returns False and leaves no issue and no
\* processing entry for the file, and the cycle that follows it selects the same
\* file: it creates the issue of that file, or fails on it again (Spec)
C34_FailedCreationRetried ==
    /\ [][FailedCreation' /\ CycleStep =>
            /\ issues' = issues
            /\ \A k \in 1..Len(processed_files') :
                    processed_files'[k].filename = NextUnprocessed(Store)'
                        => /\ processed_files'[k].status # "processing"
                           /\ \E j \in 1..Len(processed_files) : processed_files[j].filename = processed_files'[k].filename]_vars
    /\ [][FailedCreation /\ SelectsNext =>
            /\ ret' = "true" => issues'[Len(issues')].file = NextUnprocessed(Store)
            /\ ret' = "false" => NextUnprocessed(Store)' = NextUnprocessed(Store)]_vars

----------------------------------------------------------------------------
(* Progress of the queue *)

\* the files of the directory that no issue was created from
Undispatched == {md_files[k] : k \in 1..Len(md_files)} \ {issues[k].file : k \in 1..Len(issues)}

\* C35: a cycle that finds the last issue's workflow state completed, with no
\* tracker call failing and a file left that was never dispatched, creates the next
\* issue: it does not report an empty queue (Spec)
C35_CompletedDispatchesNext ==
    [][(CycleStep /\ wf' = "completed" /\ ~apiFailed' /\ Undispatched # {}) => Created]_vars

----------------------------------------------------------------------------
(* Completed entries *)

\* the state file as the cycle's mark_file_as_completed calls leave it, before
\* the cycle goes on to get_next_unprocessed_file
MarkedByCycle == MarkIssueCompleted(Store, get_last_bot_issue)

\* the cycle looks at the last bot issue (no active issue is stored by a restart),
\* finds its workflow state completed, and changes nothing on the tracker
CompletedCycle ==
    /\ CycleStep /\ wf' = "completed" /\ tracker' = tracker
    /\ ~(resume_context # <<>> /\ resume_context[1] # None)

\* an entry that the cycle has marked completed is processing when the cycle ends
SetBack ==
    \E k \in 1..Len(processed_files), j \in 1..Len(processed_files') :
        /\ processed_files[k].status = "processing"
        /\ MarkedByCycle.pf[k].status = "completed"
        /\ processed_files'[j].filename = processed_files[k].filename
        /\ processed_files'[j].status = "processing"

\* C36: an entry that a decision cycle marks completed stays completed through the
\* reconciliation that follows in the same cycle, over the same tracker state (Spec)
C36_CompletedStays ==
    [][CompletedCycle => ~SetBack]_vars

----------------------------------------------------------------------------
(* The simpler variant *)

\* C37: each issue that promote_next_github.promote_next_issue creates after the
\* first comes from a file whose number is greater than the number of the file of
\* the last bot issue, whatever the title of that issue is (SpecSimple)
C37_StrictlyIncreasing ==
    [][(Created /\ issues # <<>>) =>
            issues'[Len(issues')].file > issues[Len(issues)].file]_vars

----------------------------------------------------------------------------
(* References to other issues *)

Digits == {"0", "1", "2", "3", "4", "5", "6", "7", "8", "9"}

\* text holds the form, and no digit follows it there
HoldsExactly(form, text) ==
    \E k \in 0..(Len(text) - Len(form)) :
        /\ SubSeq(text, k + 1, k + Len(form)) = form
        /\ k + Len(form) < Len(text) => text[k + Len(form) + 1] \notin Digits

\* the request refers to issue 4 itself, in its title or its body
RefersToOwnIdentifier(pr) ==
    \E form \in {<<"#", "4">>, <<"issue", " ", "4">>} :
        HoldsExactly(form, Lower(pr.title)) \/ HoldsExactly(form, Lower(pr.body))

\* neither of the two other strategies accepts the request
DirectOnly(pr) ==
    /\ ~(Says(pr, <<"[wip]">>) /\ InWindow(pr))
    /\ ~(InWindow(pr) /\ RefersToFile(pr))

\* C38: a request that find_related_prs_for_issue returns for issue 4 on its
\* direct-reference strategy alone refers to issue 4 itself: one that only refers
\* to issue 42 is not returned (SpecMatch)
C38_OwnIdentifierOnly ==
    IsMatchObs =>
        \A p \in Returned : DirectOnly(prs[p]) => RefersToOwnIdentifier(prs[p])

----------------------------------------------------------------------------
(* Invariants of the State Store *)

\* C39: no two entries of processed_files have the same filename, whatever the
\* decision cycles, the merge steps and the restarts with their reconciliation
\* have written (Spec)
C39_FilenamesUnique ==
    \A j \in 1..Len(processed_files), k \in 1..Len(processed_files) :
        processed_files[j].filename = processed_files[k].filename => j = k

\* two entries, after a restart reconciled a state file that a cycle had written
C39_Witness ==
    /\ pc = "resumed" /\ Len(processed_files) = 2
    /\ processed_files[1].status = "completed"
    /\ processed_files[2].status = "processing"
    /\ processed_files[2].issue_number = 2

\* C40: last_completed_file is null or the filename of an entry of processed_files
\* whose status is completed (Spec)
C40_LastCompletedIsCompleted ==
    last_completed_file # None =>
        \E k \in 1..Len(processed_files) :
            /\ processed_files[k].filename = last_completed_file
            /\ processed_files[k].status = "completed"

====
